---------------------------- MODULE Spec2Model ----------------------------
(***************************************************************************)
(* A model of the half-edge kernel of hpg-lib (src/HourglassClasses):      *)
(* DihedralElement, HalfStrand, HalfHourglass, Vertex, Face and            *)
(* HourglassPlabicGraph.                                                   *)
(*                                                                         *)
(* Objects are numbered in order of construction; 0 stands for None.       *)
(* Every field of a class is a sequence indexed by object number.  The     *)
(* Python dictionaries of the graph are insertion-ordered sequences of     *)
(* [k, v] records.  The whole program state is also available as one       *)
(* record (the "heap") so that a method, which is a sequence of            *)
(* assignments and calls, is the composition of operators heap -> heap.    *)
(***************************************************************************)
EXTENDS Integers, Sequences, FiniteSets, TLC

VARIABLES
    hh_v_from, hh_v_to, hh_multiplicity, hh_twin, hh_cw_next, hh_ccw_next,
    hh_half_strands_head, hh_half_strands_tail, hh_left_face, hh_right_face,
    hs_hourglass, hs_twin, hs_cw_next, hs_ccw_next,
    v_id, v_x, v_y, v_den, v_filled, v_boundary, v_half_hourglasses_head,
    f_id, f_half_hourglasses_head, f_boundary,
    inner_vertices, boundary_vertices, faces, id_counter,
    raised, hist, ops

vars == << hh_v_from, hh_v_to, hh_multiplicity, hh_twin, hh_cw_next, hh_ccw_next,
           hh_half_strands_head, hh_half_strands_tail, hh_left_face, hh_right_face,
           hs_hourglass, hs_twin, hs_cw_next, hs_ccw_next,
           v_id, v_x, v_y, v_den, v_filled, v_boundary, v_half_hourglasses_head,
           f_id, f_half_hourglasses_head, f_boundary,
           inner_vertices, boundary_vertices, faces, id_counter,
           raised, hist, ops >>

None == 0

\* Bounds of the model.
MaxHourglasses == 5
MaxMult == 3
MaxStrandPairs == 8
MaxVertices == 4
MaxOps == 2
MaxBoundary == 4
MaxGraphVertices == 8

-----------------------------------------------------------------------------
(* The heap.                                                               *)

EmptyHeap ==
    [ hh_v_from |-> << >>, hh_v_to |-> << >>, hh_multiplicity |-> << >>,
      hh_twin |-> << >>, hh_cw_next |-> << >>, hh_ccw_next |-> << >>,
      hh_half_strands_head |-> << >>, hh_half_strands_tail |-> << >>,
      hh_left_face |-> << >>, hh_right_face |-> << >>,
      hs_hourglass |-> << >>, hs_twin |-> << >>,
      hs_cw_next |-> << >>, hs_ccw_next |-> << >>,
      v_id |-> << >>, v_x |-> << >>, v_y |-> << >>, v_den |-> << >>,
      v_filled |-> << >>, v_boundary |-> << >>, v_half_hourglasses_head |-> << >>,
      f_id |-> << >>, f_half_hourglasses_head |-> << >>, f_boundary |-> << >>,
      inner_vertices |-> << >>, boundary_vertices |-> << >>, faces |-> << >>,
      id_counter |-> 0,
      raised |-> "",
      new_vertices |-> << >>, removed_vertices |-> << >> ]

Heap ==
    [ hh_v_from |-> hh_v_from, hh_v_to |-> hh_v_to, hh_multiplicity |-> hh_multiplicity,
      hh_twin |-> hh_twin, hh_cw_next |-> hh_cw_next, hh_ccw_next |-> hh_ccw_next,
      hh_half_strands_head |-> hh_half_strands_head,
      hh_half_strands_tail |-> hh_half_strands_tail,
      hh_left_face |-> hh_left_face, hh_right_face |-> hh_right_face,
      hs_hourglass |-> hs_hourglass, hs_twin |-> hs_twin,
      hs_cw_next |-> hs_cw_next, hs_ccw_next |-> hs_ccw_next,
      v_id |-> v_id, v_x |-> v_x, v_y |-> v_y, v_den |-> v_den,
      v_filled |-> v_filled, v_boundary |-> v_boundary,
      v_half_hourglasses_head |-> v_half_hourglasses_head,
      f_id |-> f_id, f_half_hourglasses_head |-> f_half_hourglasses_head,
      f_boundary |-> f_boundary,
      inner_vertices |-> inner_vertices, boundary_vertices |-> boundary_vertices,
      faces |-> faces, id_counter |-> id_counter,
      raised |-> "",
      new_vertices |-> << >>, removed_vertices |-> << >> ]

\* The program state becomes g; a call starts with no exception pending, so
\* the exception recorded is the one the call itself raised.
Becomes(g) ==
    /\ hh_v_from' = g.hh_v_from
    /\ hh_v_to' = g.hh_v_to
    /\ hh_multiplicity' = g.hh_multiplicity
    /\ hh_twin' = g.hh_twin
    /\ hh_cw_next' = g.hh_cw_next
    /\ hh_ccw_next' = g.hh_ccw_next
    /\ hh_half_strands_head' = g.hh_half_strands_head
    /\ hh_half_strands_tail' = g.hh_half_strands_tail
    /\ hh_left_face' = g.hh_left_face
    /\ hh_right_face' = g.hh_right_face
    /\ hs_hourglass' = g.hs_hourglass
    /\ hs_twin' = g.hs_twin
    /\ hs_cw_next' = g.hs_cw_next
    /\ hs_ccw_next' = g.hs_ccw_next
    /\ v_id' = g.v_id
    /\ v_x' = g.v_x
    /\ v_y' = g.v_y
    /\ v_den' = g.v_den
    /\ v_filled' = g.v_filled
    /\ v_boundary' = g.v_boundary
    /\ v_half_hourglasses_head' = g.v_half_hourglasses_head
    /\ f_id' = g.f_id
    /\ f_half_hourglasses_head' = g.f_half_hourglasses_head
    /\ f_boundary' = g.f_boundary
    /\ inner_vertices' = g.inner_vertices
    /\ boundary_vertices' = g.boundary_vertices
    /\ faces' = g.faces
    /\ id_counter' = g.id_counter
    /\ raised' = g.raised

\* The program state is g (used by the initial conditions).
StateIs(g) ==
    /\ hh_v_from = g.hh_v_from
    /\ hh_v_to = g.hh_v_to
    /\ hh_multiplicity = g.hh_multiplicity
    /\ hh_twin = g.hh_twin
    /\ hh_cw_next = g.hh_cw_next
    /\ hh_ccw_next = g.hh_ccw_next
    /\ hh_half_strands_head = g.hh_half_strands_head
    /\ hh_half_strands_tail = g.hh_half_strands_tail
    /\ hh_left_face = g.hh_left_face
    /\ hh_right_face = g.hh_right_face
    /\ hs_hourglass = g.hs_hourglass
    /\ hs_twin = g.hs_twin
    /\ hs_cw_next = g.hs_cw_next
    /\ hs_ccw_next = g.hs_ccw_next
    /\ v_id = g.v_id
    /\ v_x = g.v_x
    /\ v_y = g.v_y
    /\ v_den = g.v_den
    /\ v_filled = g.v_filled
    /\ v_boundary = g.v_boundary
    /\ v_half_hourglasses_head = g.v_half_hourglasses_head
    /\ f_id = g.f_id
    /\ f_half_hourglasses_head = g.f_half_hourglasses_head
    /\ f_boundary = g.f_boundary
    /\ inner_vertices = g.inner_vertices
    /\ boundary_vertices = g.boundary_vertices
    /\ faces = g.faces
    /\ id_counter = g.id_counter
    /\ raised = g.raised

\* raise: the exception propagates, every later statement of the call is skipped.
Raise(g, exc) == [g EXCEPT !.raised = exc]
Ok(g) == g.raised = ""

-----------------------------------------------------------------------------
(* ID (idgenerator.py).  get_new_id(prefix) returns prefix + str(_id) and   *)
(* increments _id.  The string "v<k>" of a generated vertex id is encoded   *)
(* as the negative integer -(k+1), distinct from the non-negative integer   *)
(* ids the callers pass; "face<k>" is encoded as k.                         *)

get_new_id(g) == [g EXCEPT !.id_counter = @ + 1]
GeneratedVertexId(k) == 0 - (k + 1)

-----------------------------------------------------------------------------
(* Insertion-ordered dictionaries.                                         *)

RECURSIVE DictIndex(_, _, _)
DictIndex(d, k, i) ==
    IF i > Len(d) THEN 0
    ELSE IF d[i].k = k THEN i
    ELSE DictIndex(d, k, i + 1)

DictHas(d, k) == DictIndex(d, k, 1) # 0
DictGet(d, k) == IF DictHas(d, k) THEN d[DictIndex(d, k, 1)].v ELSE None
DictSet(d, k, v) ==
    IF DictHas(d, k) THEN [d EXCEPT ![DictIndex(d, k, 1)] = [k |-> k, v |-> v]]
    ELSE Append(d, [k |-> k, v |-> v])
DictDel(d, k) ==
    LET i == DictIndex(d, k, 1)
    IN  SubSeq(d, 1, i - 1) \o SubSeq(d, i + 1, Len(d))
DictValues(d) == [i \in 1..Len(d) |-> d[i].v]
DictKeys(d) == [i \in 1..Len(d) |-> d[i].k]

Range(s) == {s[i] : i \in 1..Len(s)}


-----------------------------------------------------------------------------
(* DihedralElement (dihedralelement.py): a circular doubly linked list.     *)
(* L is the pair of link fields [cw, ccw] of one class of elements.         *)

\* insert_cw_next that leaves the _ccw_next of the old clockwise neighbour
\* as it was.
D_insert_cw_next_one_way(L, self, element) ==
    LET L1 == [L  EXCEPT !.ccw[element] = self]
        L2 == [L1 EXCEPT !.cw[element] = L1.cw[self]]
    IN  [L2 EXCEPT !.cw[self] = element]

D_insert_cw_next(L, self, element) ==
    LET L1 == [L  EXCEPT !.ccw[element] = self]
        L2 == [L1 EXCEPT !.cw[element] = L1.cw[self]]
        L3 == [L2 EXCEPT !.ccw[L2.cw[self]] = element]
    IN  [L3 EXCEPT !.cw[self] = element]

D_insert_ccw_next(L, self, element) ==
    LET L1 == [L  EXCEPT !.cw[element] = self]
        L2 == [L1 EXCEPT !.ccw[element] = L1.ccw[self]]
        L3 == [L2 EXCEPT !.cw[L2.ccw[self]] = element]
    IN  [L3 EXCEPT !.ccw[self] = element]

\* remove that leaves the links of the removed element as they were.
D_remove_keeps_own_links(L, self) ==
    LET L1 == [L  EXCEPT !.ccw[L.cw[self]] = L.ccw[self]]
    IN  [L1 EXCEPT !.cw[L1.ccw[self]] = L1.cw[self]]

D_remove(L, self) ==
    LET L1 == [L  EXCEPT !.ccw[L.cw[self]] = L.ccw[self]]
        L2 == [L1 EXCEPT !.cw[L1.ccw[self]] = L1.cw[self]]
        L3 == [L2 EXCEPT !.cw[self] = self]
    IN  [L3 EXCEPT !.ccw[self] = self]

D_link_cw_next(L, self, element) ==
    LET L1 == [L EXCEPT !.cw[self] = element]
    IN  [L1 EXCEPT !.ccw[element] = self]

D_link_ccw_next(L, self, element) ==
    LET L1 == [L EXCEPT !.ccw[self] = element]
    IN  [L1 EXCEPT !.cw[element] = self]

\* _DihedralIterator and _TurnIterator: yield head, then follow next until
\* head comes up again.  The walk is cut after fuel steps: on a list that
\* does not lead back to head the Python iterator never stops.
RECURSIVE Walk(_, _, _, _, _)
Walk(next, head, cur, acc, fuel) ==
    LET acc2 == Append(acc, cur)
    IN  IF next[cur] = head \/ fuel = 0 THEN acc2
        ELSE Walk(next, head, next[cur], acc2, fuel - 1)

Iterate(next, head) == Walk(next, head, head, << >>, Len(next))

\* Whether the iterator started at head stops.
RECURSIVE Closes(_, _, _, _)
Closes(next, head, cur, fuel) ==
    IF next[cur] = head THEN TRUE
    ELSE IF fuel = 0 THEN FALSE
    ELSE Closes(next, head, next[cur], fuel - 1)

RECURSIVE get_ith_element(_, _, _)
get_ith_element(next, e, i) ==
    IF i > 0 THEN get_ith_element(next, next[e], i - 1) ELSE e

\* get_num_elements(): counts the elements of the clockwise iteration.
get_num_elements(L, self) == Len(Iterate(L.cw, self))

\* get_elements_as_list(clockwise): the value returned is the record
\* [none, list]; none means that the call returned None.  With clockwise
\* False the list is built but not returned.
get_elements_as_list(L, self, clockwise) ==
    IF clockwise THEN [none |-> FALSE, list |-> Iterate(L.cw, self)]
    ELSE [none |-> TRUE, list |-> << >>]

HHLinks(g) == [cw |-> g.hh_cw_next, ccw |-> g.hh_ccw_next]
HSLinks(g) == [cw |-> g.hs_cw_next, ccw |-> g.hs_ccw_next]
SetHHLinks(g, L) == [g EXCEPT !.hh_cw_next = L.cw, !.hh_ccw_next = L.ccw]
SetHSLinks(g, L) == [g EXCEPT !.hs_cw_next = L.cw, !.hs_ccw_next = L.ccw]

\* left_turn / right_turn of a half hourglass, as functions of the element.
hh_right_turn(g) == [h \in 1..Len(g.hh_twin) |-> g.hh_ccw_next[g.hh_twin[h]]]
hh_left_turn(g) == [h \in 1..Len(g.hh_twin) |-> g.hh_cw_next[g.hh_twin[h]]]
iterate_right_turns(g, h) == Iterate(hh_right_turn(g), h)
iterate_hh_clockwise(g, h) == Iterate(g.hh_cw_next, h)
iterate_hh_counterclockwise(g, h) == Iterate(g.hh_ccw_next, h)

-----------------------------------------------------------------------------
(* A method that changes the program state is an operator from the heap g   *)
(* (and the arguments) to the heap it leaves.  A method calls another       *)
(* through Call(name, g, args), defined after the methods; self, when there *)
(* is one, is the first element of args.                                    *)

RECURSIVE Call(_, _, _)

-----------------------------------------------------------------------------
(* HalfStrand (halfstrand.py) and HalfHourglass (halfhourglass.py).         *)

\* HalfStrand(ID.get_new_id(..), hourglass): the strand and the twin it
\* constructs for hourglass.twin(); each is a list of its own.
HalfStrand_init(g, hourglass) ==
    LET s == Len(g.hs_twin) + 1
        t == s + 1
        g1 == get_new_id(g)
    IN  [g1 EXCEPT !.hs_hourglass = @ \o << hourglass, g.hh_twin[hourglass] >>,
                   !.hs_twin = @ \o << t, s >>,
                   !.hs_cw_next = @ \o << s, t >>,
                   !.hs_ccw_next = @ \o << s, t >>]

\* The loop of HalfHourglass.__init__ that creates strands 2..multiplicity.
RECURSIVE InitStrands(_, _, _)
InitStrands(g, hh, k) ==
    IF k = 0 THEN g
    ELSE LET g1 == HalfStrand_init(g, hh)
             strand == Len(g.hs_twin) + 1
             L1 == D_insert_ccw_next(HSLinks(g1), g1.hh_half_strands_head[hh], strand)
             L2 == D_insert_ccw_next(L1, g1.hh_half_strands_head[g1.hh_twin[hh]],
                                     g1.hs_twin[strand])
         IN  InitStrands(SetHSLinks(g1, L2), hh, k - 1)

\* HalfHourglass(id, v_from, v_to, multiplicity): the new object is number
\* Len+1 and the twin it constructs is Len+2.
HalfHourglass_init(g, v_from, v_to, multiplicity) ==
    LET hh == Len(g.hh_twin) + 1
        tw == hh + 1
        g1 == [g EXCEPT !.hh_v_from = @ \o << v_from, v_to >>,
                        !.hh_v_to = @ \o << v_to, v_from >>,
                        !.hh_multiplicity = @ \o << multiplicity, multiplicity >>,
                        !.hh_twin = @ \o << tw, hh >>,
                        !.hh_cw_next = @ \o << hh, tw >>,
                        !.hh_ccw_next = @ \o << hh, tw >>,
                        !.hh_half_strands_head = @ \o << None, None >>,
                        !.hh_half_strands_tail = @ \o << None, None >>,
                        !.hh_left_face = @ \o << None, None >>,
                        !.hh_right_face = @ \o << None, None >>]
    IN  IF multiplicity = 0 THEN g1
        ELSE LET g2 == HalfStrand_init(g1, hh)
                 head == Len(g1.hs_twin) + 1
                 g3 == [g2 EXCEPT !.hh_half_strands_head[hh] = head,
                                  !.hh_half_strands_head[tw] = g2.hs_twin[head]]
                 g4 == InitStrands(g3, hh, multiplicity - 1)
                 tail == g4.hs_ccw_next[head]
             IN  [g4 EXCEPT !.hh_half_strands_tail[hh] = tail,
                            !.hh_half_strands_tail[tw] = g4.hs_twin[tail]]

strand_count(g, hh) == g.hh_multiplicity[hh]
is_phantom(g, hh) == g.hh_multiplicity[hh] = 0

\* _get_first_strand: the head strand of self or, failing that, of the first
\* hourglass clockwise from self that has strands.
RECURSIVE FirstWithStrands(_, _, _)
FirstWithStrands(g, hhs, i) ==
    IF i > Len(hhs) THEN None
    ELSE IF strand_count(g, hhs[i]) > 0 THEN g.hh_half_strands_head[hhs[i]]
    ELSE FirstWithStrands(g, hhs, i + 1)

get_first_strand(g, self) ==
    IF g.hh_half_strands_head[self] # None THEN g.hh_half_strands_head[self]
    ELSE FirstWithStrands(g, iterate_hh_clockwise(g, self), 1)

\* The strand linking shared by insert_cw_next and insert_ccw_next.
LinkUpStrands(g, element) ==
    IF g.hh_half_strands_head[element] = None THEN g
    ELSE LET next_strand == get_first_strand(g, g.hh_cw_next[element])
         IN  IF next_strand = None THEN g
             ELSE LET prev_strand == g.hs_ccw_next[next_strand]
                      L1 == D_link_cw_next(HSLinks(g), g.hh_half_strands_tail[element],
                                           next_strand)
                      L2 == D_link_ccw_next(L1, g.hh_half_strands_head[element],
                                            prev_strand)
                  IN  SetHSLinks(g, L2)

hh_insert_cw_next(g, self, element) ==
    LinkUpStrands(SetHHLinks(g, D_insert_cw_next(HHLinks(g), self, element)), element)

hh_insert_ccw_next(g, self, element) ==
    LinkUpStrands(SetHHLinks(g, D_insert_ccw_next(HHLinks(g), self, element)), element)

\* remove that takes the hourglass out of its list and leaves its strands
\* linked where they were.
hh_remove_keeps_strands(g, self) == SetHHLinks(g, D_remove(HHLinks(g), self))

hh_remove(g, self) ==
    LET g1 == IF g.hh_half_strands_head[self] # None
              THEN LET head == g.hh_half_strands_head[self]
                       tail == g.hh_half_strands_tail[self]
                       L1 == D_link_cw_next(HSLinks(g), g.hs_ccw_next[head],
                                            g.hs_cw_next[tail])
                       L2 == D_link_ccw_next(L1, head, tail)
                   IN  SetHSLinks(g, L2)
              ELSE g
    IN  SetHHLinks(g1, D_remove(HHLinks(g1), self))

\* add_strand that forgets to move _half_strands_tail to the new strand.
add_strand_keeps_tail(g, self) ==
    IF is_phantom(g, self)
    THEN Raise(g, "RuntimeError")
    ELSE LET g1 == HalfStrand_init(g, self)
             new_strand == Len(g.hs_twin) + 1
             tw == g.hh_twin[self]
             L1 == D_insert_cw_next(HSLinks(g1), g1.hh_half_strands_tail[self], new_strand)
             L2 == D_insert_cw_next(L1, g1.hs_twin[g1.hh_half_strands_tail[self]],
                                    g1.hs_twin[new_strand])
             g2 == SetHSLinks(g1, L2)
         IN  [g2 EXCEPT !.hh_multiplicity[self] = @ + 1,
                        !.hh_multiplicity[tw] = @ + 1]

add_strand(g, self) ==
    IF is_phantom(g, self)
    THEN Raise(g, "RuntimeError")
    ELSE LET g1 == HalfStrand_init(g, self)
             new_strand == Len(g.hs_twin) + 1
             tw == g.hh_twin[self]
             L1 == D_insert_cw_next(HSLinks(g1), g1.hh_half_strands_tail[self], new_strand)
             L2 == D_insert_cw_next(L1, g1.hs_twin[g1.hh_half_strands_tail[self]],
                                    g1.hs_twin[new_strand])
             g2 == SetHSLinks(g1, L2)
         IN  [g2 EXCEPT !.hh_half_strands_tail[self] = new_strand,
                        !.hh_half_strands_tail[tw] = g2.hs_twin[new_strand],
                        !.hh_multiplicity[self] = @ + 1,
                        !.hh_multiplicity[tw] = @ + 1]

\* remove_strand that leaves the twin's _half_strands_tail on the removed strand.
remove_strand_keeps_twin_tail(g, self) ==
    IF strand_count(g, self) <= 1
    THEN Raise(g, "RuntimeError")
    ELSE LET tw == g.hh_twin[self]
             g1 == [g  EXCEPT !.hh_half_strands_tail[self] = g.hs_ccw_next[@]]
             L1 == D_remove(HSLinks(g1), g1.hs_cw_next[g1.hh_half_strands_tail[self]])
             L2 == D_remove(L1, g1.hh_half_strands_tail[tw])
             g3 == SetHSLinks(g1, L2)
         IN  [g3 EXCEPT !.hh_multiplicity[self] = @ - 1,
                        !.hh_multiplicity[tw] = @ - 1]

\* remove_strand that refuses only a phantom hourglass (< 1 for <= 1).
remove_strand_allows_last(g, self) ==
    IF strand_count(g, self) < 1
    THEN Raise(g, "RuntimeError")
    ELSE LET tw == g.hh_twin[self]
             g1 == [g  EXCEPT !.hh_half_strands_tail[self] = g.hs_ccw_next[@]]
             g2 == [g1 EXCEPT !.hh_half_strands_tail[tw] = g1.hs_ccw_next[@]]
             L1 == D_remove(HSLinks(g2), g2.hs_cw_next[g2.hh_half_strands_tail[self]])
             L2 == D_remove(L1, L1.cw[g2.hh_half_strands_tail[tw]])
             g3 == SetHSLinks(g2, L2)
         IN  [g3 EXCEPT !.hh_multiplicity[self] = @ - 1,
                        !.hh_multiplicity[tw] = @ - 1]

remove_strand(g, self) ==
    IF strand_count(g, self) <= 1
    THEN Raise(g, "RuntimeError")
    ELSE LET tw == g.hh_twin[self]
             g1 == [g  EXCEPT !.hh_half_strands_tail[self] = g.hs_ccw_next[@]]
             g2 == [g1 EXCEPT !.hh_half_strands_tail[tw] = g1.hs_ccw_next[@]]
             L1 == D_remove(HSLinks(g2), g2.hs_cw_next[g2.hh_half_strands_tail[self]])
             L2 == D_remove(L1, L1.cw[g2.hh_half_strands_tail[tw]])
             g3 == SetHSLinks(g2, L2)
         IN  [g3 EXCEPT !.hh_multiplicity[self] = @ - 1,
                        !.hh_multiplicity[tw] = @ - 1]

\* HalfStrand.get_last_strand_same_hourglass(): the clockwise iteration from
\* self.cw_next() ends with self; cw_prev() of the first strand that is
\* self or has another hourglass is returned, and None when there is none.
get_last_strand_same_hourglass(g, self) ==
    LET strands == Iterate(g.hs_cw_next, g.hs_cw_next[self])
        hits == {k \in 1..Len(strands) :
                    \/ g.hs_hourglass[strands[k]] # g.hs_hourglass[self]
                    \/ strands[k] = self}
    IN  IF hits = {} THEN None
        ELSE g.hs_ccw_next[strands[CHOOSE k \in hits : \A j \in hits : k <= j]]

\* _StrandIterator.
iterate_strands(g, hh) ==
    IF g.hh_half_strands_head[hh] = None THEN << >>
    ELSE LET head == g.hh_half_strands_head[hh]
             end_strand == g.hs_cw_next[g.hh_half_strands_tail[hh]]
         IN  Walk(g.hs_cw_next, end_strand, head, << >>, Len(g.hs_cw_next))

-----------------------------------------------------------------------------
(* Vertex (vertex.py).                                                     *)

\* Vertex(id, x, y, filled, boundary).  A coordinate is the rational
\* x / den with den > 0, so that the averaged position computed by
\* square_move_expand is exact.
Vertex_init(g, id, x, y, den, filled, boundary) ==
    [g EXCEPT !.v_id = Append(@, id), !.v_x = Append(@, x), !.v_y = Append(@, y),
              !.v_den = Append(@, den), !.v_filled = Append(@, filled),
              !.v_boundary = Append(@, boundary),
              !.v_half_hourglasses_head = Append(@, None)]

\* get_angle is atan2(dy, dx) brought into [0, 2 pi).  Only comparisons of
\* angles are ever made, so an angle is represented by its direction
\* (dx, dy), scaled by the positive product of the two denominators;
\* atan2(0, 0) is 0, the angle of the direction (1, 0).
Abs(n) == IF n < 0 THEN 0 - n ELSE n

RECURSIVE GCD(_, _)
GCD(a, b) == IF b = 0 THEN a ELSE GCD(b, a % b)

Reduced(dx, dy) ==
    IF dx = 0 /\ dy = 0 THEN [dx |-> 1, dy |-> 0]
    ELSE [dx |-> dx \div GCD(Abs(dx), Abs(dy)), dy |-> dy \div GCD(Abs(dx), Abs(dy))]

Delta(g, a, b) ==
    Reduced(g.v_x[b] * g.v_den[a] - g.v_x[a] * g.v_den[b],
            g.v_y[b] * g.v_den[a] - g.v_y[a] * g.v_den[b])

Direction(g, hh) == Delta(g, g.hh_v_from[hh], g.hh_v_to[hh])

\* 0 for an angle in [0, pi), 1 for an angle in [pi, 2 pi).
HalfTurn(d) == IF d.dy > 0 \/ (d.dy = 0 /\ d.dx > 0) THEN 0 ELSE 1

AngleLess(d1, d2) ==
    \/ HalfTurn(d1) < HalfTurn(d2)
    \/ /\ HalfTurn(d1) = HalfTurn(d2)
       /\ d1.dx * d2.dy - d1.dy * d2.dx > 0

get_angle_less(g, h1, h2) == AngleLess(Direction(g, h1), Direction(g, h2))

\* Vertex.__iter__: counterclockwise from the head.
iterate_vertex(g, v) ==
    IF g.v_half_hourglasses_head[v] = None THEN << >>
    ELSE iterate_hh_counterclockwise(g, g.v_half_hourglasses_head[v])

RECURSIVE reset_head_from(_, _, _)
reset_head_from(g, head, fuel) ==
    IF fuel > 0 /\ get_angle_less(g, g.hh_cw_next[head], head)
    THEN reset_head_from(g, g.hh_cw_next[head], fuel - 1)
    ELSE head

reset_head(g, v) ==
    [g EXCEPT !.v_half_hourglasses_head[v] =
                  reset_head_from(g, @, Len(g.hh_twin))]

\* The first hourglass of hhs, from position i, whose angle exceeds that of hh.
RECURSIVE FirstGreaterAngle(_, _, _, _)
FirstGreaterAngle(g, hhs, hh, i) ==
    IF i > Len(hhs) THEN None
    ELSE IF get_angle_less(g, hh, hhs[i]) THEN hhs[i]
    ELSE FirstGreaterAngle(g, hhs, hh, i + 1)

\* _insert_hourglass that puts hh clockwise of the head whatever its angle.
insert_hourglass_at_head(g, v, hh) ==
    IF g.v_half_hourglasses_head[v] = None
    THEN [g EXCEPT !.v_half_hourglasses_head[v] = hh]
    ELSE Call("insert_cw_next", g, <<g.v_half_hourglasses_head[v], hh>>)

insert_hourglass(g, v, hh) ==
    IF g.v_half_hourglasses_head[v] = None
    THEN [g EXCEPT !.v_half_hourglasses_head[v] = hh]
    ELSE LET g1 == Call("_reset_head", g, <<v>>)
             iter_hh == FirstGreaterAngle(g1, iterate_vertex(g1, v), hh, 1)
         IN  IF iter_hh # None
             THEN LET g2 == Call("insert_cw_next", g1, <<iter_hh, hh>>)
                  IN  IF iter_hh = g2.v_half_hourglasses_head[v]
                      THEN [g2 EXCEPT !.v_half_hourglasses_head[v] = hh]
                      ELSE g2
             ELSE Call("insert_cw_next", g1, <<g1.v_half_hourglasses_head[v], hh>>)

\* Vertex._remove_hourglass
v_remove_hourglass(g, v, hh) ==
    LET g1 == IF hh = g.v_half_hourglasses_head[v]
              THEN LET nh == g.hh_ccw_next[hh]
                   IN  [g EXCEPT !.v_half_hourglasses_head[v] =
                                     IF hh = nh THEN None ELSE nh]
              ELSE g
    IN  Call("remove", g1, <<hh>>)

create_hourglass_between(g, v1, v2, multiplicity) ==
    LET g1 == Call("HalfHourglass", g, <<v1, v2, multiplicity>>)
        hh == Len(g.hh_twin) + 1
        g2 == Call("_insert_hourglass", g1, <<v1, hh>>)
    IN  Call("_insert_hourglass", g2, <<v2, g2.hh_twin[hh]>>)

\* get_hourglass_to: None stands for the ValueError it raises.
RECURSIVE FirstTo(_, _, _, _)
FirstTo(g, hhs, v_to, i) ==
    IF i > Len(hhs) THEN None
    ELSE IF g.hh_v_to[hhs[i]] = v_to THEN hhs[i]
    ELSE FirstTo(g, hhs, v_to, i + 1)

get_hourglass_to(g, v, v_to) == FirstTo(g, iterate_vertex(g, v), v_to, 1)

remove_hourglass_between(g, v1, v2) ==
    LET hh == get_hourglass_to(g, v1, v2)
    IN  IF hh = None THEN Raise(g, "ValueError")
        ELSE LET g1 == Call("_remove_hourglass", g, <<v1, hh>>)
             IN  Call("_remove_hourglass", g1, <<v2, g1.hh_twin[hh]>>)

\* reparent that does not update the twin's _v_to.
reparent_keeps_twin_v_to(g, self, v) ==
    LET tw == g.hh_twin[self]
        g1 == Call("_remove_hourglass", g, <<g.hh_v_from[self], self>>)
        g2 == [g1 EXCEPT !.hh_v_from[self] = v]
        g3 == Call("_insert_hourglass", g2, <<v, self>>)
        g4 == Call("_remove_hourglass", g3, <<g3.hh_v_from[tw], tw>>)
    IN  Call("_insert_hourglass", g4, <<g4.hh_v_from[tw], tw>>)

\* reparent that leaves self in the rotation list of its old origin.
reparent_without_removal(g, self, v) ==
    LET tw == g.hh_twin[self]
        g2 == [g EXCEPT !.hh_v_from[self] = v]
        g3 == Call("_insert_hourglass", g2, <<v, self>>)
        g4 == Call("_remove_hourglass", g3, <<g3.hh_v_from[tw], tw>>)
        g5 == [g4 EXCEPT !.hh_v_to[tw] = v]
    IN  Call("_insert_hourglass", g5, <<g5.hh_v_from[tw], tw>>)

\* HalfHourglass.reparent
reparent(g, self, v) ==
    LET tw == g.hh_twin[self]
        g1 == Call("_remove_hourglass", g, <<g.hh_v_from[self], self>>)
        g2 == [g1 EXCEPT !.hh_v_from[self] = v]
        g3 == Call("_insert_hourglass", g2, <<v, self>>)
        g4 == Call("_remove_hourglass", g3, <<g3.hh_v_from[tw], tw>>)
        g5 == [g4 EXCEPT !.hh_v_to[tw] = v]
    IN  Call("_insert_hourglass", g5, <<g5.hh_v_from[tw], tw>>)

RECURSIVE SumMult(_, _, _)
SumMult(g, hhs, i) ==
    IF i > Len(hhs) THEN 0 ELSE strand_count(g, hhs[i]) + SumMult(g, hhs, i + 1)

total_degree(g, v) == SumMult(g, iterate_vertex(g, v), 1)

simple_degree(g, v) ==
    IF g.v_half_hourglasses_head[v] = None THEN 0
    ELSE Len(iterate_hh_clockwise(g, g.v_half_hourglasses_head[v]))

\* Vertex.clear_hourglasses.  "for hh in self" runs a _DihedralIterator over
\* the list as it is at each step: it stops when it comes back to the head
\* it started from, and reads ccw_next() of the element it is about to hand
\* out.  An iteration that never comes back to that head does not end; the
\* model stops it after ClearFuel steps with the exception "Hang".
RECURSIVE ClearLoop(_, _, _, _, _)
ClearLoop(g, head, iter, begin, fuel) ==
    IF iter = head /\ begin THEN g
    ELSE IF fuel = 0 THEN Raise(g, "Hang")
    ELSE LET old == iter
             g1 == Call("_remove_hourglass", g, <<g.hh_v_to[old], g.hh_twin[old]>>)
         IN  ClearLoop(g1, head, g.hh_ccw_next[old], TRUE, fuel - 1)

\* clear_hourglasses that empties the list of self only and leaves the
\* twins in the lists of the other vertices.
clear_hourglasses_keeps_twins(g, self) ==
    [g EXCEPT !.v_half_hourglasses_head[self] = None]

clear_hourglasses(g, self) ==
    IF g.v_half_hourglasses_head[self] = None THEN g
    ELSE LET g1 == ClearLoop(g, g.v_half_hourglasses_head[self],
                             g.v_half_hourglasses_head[self], FALSE,
                             2 * Len(g.hh_twin))
         IN  IF g1.raised # "" THEN g1
             ELSE [g1 EXCEPT !.v_half_hourglasses_head[self] = None]

RECURSIVE ReparentAll(_, _, _, _)
ReparentAll(g, hhs, v, i) ==
    IF i > Len(hhs) THEN g
    ELSE ReparentAll(Call("reparent", g, <<hhs[i], v>>), hhs, v, i + 1)

\* square_move_contract that leaves out_hh in the list of the surviving
\* vertex.
square_move_contract_keeps_out_hh(g, self, out_hh) ==
    ReparentAll(g, SelectSeq(iterate_vertex(g, self), LAMBDA hh : hh # out_hh),
                g.hh_v_to[out_hh], 1)

square_move_contract(g, self, out_hh) ==
    LET sur_v == g.hh_v_to[out_hh]
        hourglasses == SelectSeq(iterate_vertex(g, self), LAMBDA hh : hh # out_hh)
        g1 == ReparentAll(g, hourglasses, sur_v, 1)
    IN  Call("_remove_hourglass", g1, <<sur_v, g1.hh_twin[out_hh]>>)

\* square_move_expand: the new vertex is number Len+1.  Its position is
\* (2 x + x1 + x2) / 4, here over the common denominator 4 d d1 d2.
square_move_expand(g, self, hh1, hh2) ==
    LET a == g.hh_v_to[hh1]
        b == g.hh_v_to[hh2]
        d == g.v_den[self]
        da == g.v_den[a]
        db == g.v_den[b]
        x == 2 * g.v_x[self] * da * db + g.v_x[a] * d * db + g.v_x[b] * d * da
        y == 2 * g.v_y[self] * da * db + g.v_y[a] * d * db + g.v_y[b] * d * da
        den == 4 * d * da * db
        k == GCD(GCD(Abs(x), Abs(y)), den)
        new_v == Len(g.v_id) + 1
        g1 == Vertex_init(get_new_id(g), GeneratedVertexId(g.id_counter),
                          x \div k, y \div k, den \div k, ~ g.v_filled[self], FALSE)
        g2 == Call("reparent", g1, <<hh1, new_v>>)
        g3 == Call("reparent", g2, <<hh2, new_v>>)
        multiplicity == g3.hh_multiplicity[hh1] + g3.hh_multiplicity[hh2]
    IN  Call("create_hourglass_between", g3, <<self, new_v, multiplicity>>)

-----------------------------------------------------------------------------
(* Face (face.py).                                                          *)

\* Face.__iter__: the half hourglasses met turning right from the head.
iterate_face(g, f) == iterate_right_turns(g, g.f_half_hourglasses_head[f])

\* The loop of initialize_half_hourglasses.
RECURSIVE SetFaces(_, _, _, _)
SetFaces(g, self, hhs, i) ==
    IF i > Len(hhs) THEN g
    ELSE SetFaces([g EXCEPT !.hh_right_face[hhs[i]] = self,
                            !.hh_left_face[g.hh_twin[hhs[i]]] = self,
                            !.f_boundary[self] = @ \/ is_phantom(g, hhs[i])],
                  self, hhs, i + 1)

\* A variant that handles the head alone instead of every half hourglass
\* of the cycle.
initialize_half_hourglasses_head_only(g, self, hh) ==
    [g EXCEPT !.f_half_hourglasses_head[self] = hh,
              !.f_boundary[self] = is_phantom(g, hh),
              !.hh_right_face[hh] = self,
              !.hh_left_face[g.hh_twin[hh]] = self]

initialize_half_hourglasses(g, self, hh) ==
    SetFaces([g EXCEPT !.f_half_hourglasses_head[self] = hh,
                       !.f_boundary[self] = FALSE],
             self, iterate_right_turns(g, hh), 1)

\* Face(id, half_hourglass): the new object is number Len+1.
Face_init(g, id, half_hourglass) ==
    Call("initialize_half_hourglasses",
         [g EXCEPT !.f_id = Append(@, id),
                   !.f_half_hourglasses_head = Append(@, half_hourglass),
                   !.f_boundary = Append(@, FALSE)],
         << Len(g.f_id) + 1, half_hourglass >>)

-----------------------------------------------------------------------------
(* HourglassPlabicGraph (hourglassplabicgraph.py): construction and edits.  *)

order(g) == Len(g.inner_vertices) + Len(g.boundary_vertices)

\* _get_vertex(v_id): None stands for the ValueError it raises.
get_vertex(g, id) ==
    IF DictHas(g.inner_vertices, id) THEN DictGet(g.inner_vertices, id)
    ELSE DictGet(g.boundary_vertices, id)

\* 1000 sin((i + 0.5) 2 pi / n) and 1000 cos((i + 0.5) 2 pi / n), rounded,
\* for n = 1..8 and i = 0..n-1.  With the default r = 10 the position of
\* boundary vertex i is this pair over the denominator 100.
BoundaryCircle ==
    << << <<0, -1000>> >>,
       << <<1000, 0>>, <<-1000, 0>> >>,
       << <<866, 500>>, <<0, -1000>>, <<-866, 500>> >>,
       << <<707, 707>>, <<707, -707>>, <<-707, -707>>, <<-707, 707>> >>,
       << <<588, 809>>, <<951, -309>>, <<0, -1000>>, <<-951, -309>>, <<-588, 809>> >>,
       << <<500, 866>>, <<1000, 0>>, <<500, -866>>, <<-500, -866>>, <<-1000, 0>>,
          <<-500, 866>> >>,
       << <<434, 901>>, <<975, 223>>, <<782, -623>>, <<0, -1000>>, <<-782, -623>>,
          <<-975, 223>>, <<-434, 901>> >>,
       << <<383, 924>>, <<924, 383>>, <<924, -383>>, <<383, -924>>, <<-383, -924>>,
          <<-924, -383>>, <<-924, 383>>, <<-383, 924>> >> >>

\* del self._faces[face.id]
DelFace(g, face) ==
    IF DictHas(g.faces, g.f_id[face])
    THEN [g EXCEPT !.faces = DictDel(@, g.f_id[face])]
    ELSE Raise(g, "KeyError")

\* face = Face(ID.get_new_id("face"), hh); self._faces[face.id] = face
AddFace(g, hh) ==
    [Call("Face", get_new_id(g), << g.id_counter, hh >>)
        EXCEPT !.faces = DictSet(@, g.id_counter, Len(g.f_id) + 1)]

RECURSIVE BoundaryVertices(_, _, _, _)
BoundaryVertices(g, n, filling, i) ==
    IF i >= n THEN g
    ELSE BoundaryVertices(
             [Vertex_init(g, i, BoundaryCircle[n][i + 1][1], BoundaryCircle[n][i + 1][2],
                          100, filling[i + 1], TRUE)
                 EXCEPT !.boundary_vertices = DictSet(@, i, Len(g.v_id) + 1)],
             n, filling, i + 1)

\* A variant whose loop stops one hourglass early.
RECURSIVE BoundaryHourglasses_short(_, _, _)
BoundaryHourglasses_short(g, n, i) ==
    IF i >= n - 2 THEN g
    ELSE BoundaryHourglasses_short(
             Call("create_hourglass_between", g,
                  << DictGet(g.boundary_vertices, i),
                     DictGet(g.boundary_vertices, i + 1), 0 >>),
             n, i + 1)

RECURSIVE BoundaryHourglasses(_, _, _)
BoundaryHourglasses(g, n, i) ==
    IF i >= n - 1 THEN g
    ELSE BoundaryHourglasses(
             Call("create_hourglass_between", g,
                  << DictGet(g.boundary_vertices, i),
                     DictGet(g.boundary_vertices, i + 1), 0 >>),
             n, i + 1)

\* construct_boundary(n, filling) with n >= 1; filling is the list of the
\* fill colours (a bool stands for the list that repeats it).
construct_boundary(g, n, filling) ==
    IF order(g) # 0 THEN Raise(g, "AssertionError")
    ELSE LET g2 == BoundaryHourglasses(BoundaryVertices(g, n, filling, 0), n, 0)
             hh == Len(g2.hh_twin) + 1
             g3 == Call("create_hourglass_between", g2,
                        << DictGet(g2.boundary_vertices, n - 1),
                           DictGet(g2.boundary_vertices, 0), 0 >>)
         IN  Call("AddFace", Call("AddFace", g3, <<hh>>), << g3.hh_twin[hh] >>)

create_vertex(g, id, x, y, filled, boundary, verify_id) ==
    IF verify_id /\ (\/ ~ boundary /\ DictHas(g.inner_vertices, id)
                     \/ boundary /\ DictHas(g.boundary_vertices, id))
    THEN Raise(g, "ValueError")
    ELSE IF boundary
    THEN [Vertex_init(g, id, x, y, 1, filled, boundary)
             EXCEPT !.boundary_vertices = DictSet(@, id, Len(g.v_id) + 1)]
    ELSE [Vertex_init(g, id, x, y, 1, filled, boundary)
             EXCEPT !.inner_vertices = DictSet(@, id, Len(g.v_id) + 1)]

\* The loop of create_hourglass over new_hh.iterate_right_turns(): face is
\* the first right face met, and the first right face that differs from it
\* is deleted from _faces.
RECURSIVE MergeFaces(_, _, _, _)
MergeFaces(g, hhs, face, i) ==
    IF i > Len(hhs) THEN [g |-> g, face |-> face]
    ELSE IF g.hh_right_face[hhs[i]] = None THEN MergeFaces(g, hhs, face, i + 1)
    ELSE IF face = None THEN MergeFaces(g, hhs, g.hh_right_face[hhs[i]], i + 1)
    ELSE IF face # g.hh_right_face[hhs[i]]
    THEN [g |-> DelFace(g, g.hh_right_face[hhs[i]]), face |-> face]
    ELSE MergeFaces(g, hhs, face, i + 1)

\* The statements of create_hourglass after the loop.
FaceNewHourglass(g, new_hh, face) ==
    LET g2 == IF face # None
              THEN Call("initialize_half_hourglasses", g, << face, new_hh >>)
              ELSE Call("AddFace", g, << new_hh >>)
    IN  IF Ok(g2) /\ g2.hh_right_face[g2.hh_twin[new_hh]] = None
        THEN Call("AddFace", g2, << g2.hh_twin[new_hh] >>)
        ELSE g2

\* create_hourglass(v1, v2, multiplicity); new_hh is number Len+1.
create_hourglass(g, v1, v2, multiplicity) ==
    LET new_hh == Len(g.hh_twin) + 1
        g1 == Call("create_hourglass_between", g, << v1, v2, multiplicity >>)
        m == MergeFaces(g1, iterate_right_turns(g1, new_hh), None, 1)
    IN  Call("FaceNewHourglass", m.g, << new_hh, m.face >>)

\* The loops of _remove_hourglass_internal: the first half hourglass of hhs
\* other than del_hh and its twin that has a right face.
RECURSIVE FirstFaced(_, _, _, _)
FirstFaced(g, hhs, del_hh, i) ==
    IF i > Len(hhs) THEN None
    ELSE IF /\ hhs[i] # del_hh
            /\ hhs[i] # g.hh_twin[del_hh]
            /\ g.hh_right_face[hhs[i]] # None
    THEN hhs[i]
    ELSE FirstFaced(g, hhs, del_hh, i + 1)

RightFaceOf(g, hh) == IF hh = None THEN None ELSE g.hh_right_face[hh]

\* The statements of _remove_hourglass_internal after
\* Vertex.remove_hourglass_between(v1, v2); face1 and face2 are the right
\* faces hh1 and hh2 had before it.
RefaceAfterRemoval(g, del_hh, hh1, face1, hh2, face2) ==
    LET g2 == IF face1 # None
              THEN Call("initialize_half_hourglasses", g, << face1, hh1 >>)
              ELSE g
        g3 == IF face2 = None THEN g2
              ELSE IF face2 # face1 THEN DelFace(g2, face2)
              ELSE IF ~ (\/ g2.hh_ccw_next[g2.hh_twin[del_hh]] = g2.hh_twin[del_hh]
                         \/ g2.hh_ccw_next[del_hh] = del_hh)
              THEN Call("AddFace", g2, << hh2 >>)
              ELSE g2
    IN  IF ~ Ok(g3) \/ face1 # None \/ face2 # None THEN g3
        ELSE IF g3.hh_right_face[del_hh] = None THEN Raise(g3, "AttributeError")
        ELSE DelFace(g3, g3.hh_right_face[del_hh])

remove_hourglass_internal(g, del_hh, v1, v2) ==
    LET hh1 == FirstFaced(g, iterate_right_turns(g, del_hh), del_hh, 1)
        hh2 == FirstFaced(g, iterate_right_turns(g, g.hh_twin[del_hh]), del_hh, 1)
    IN  Call("RefaceAfterRemoval", Call("remove_hourglass_between", g, << v1, v2 >>),
             << del_hh, hh1, RightFaceOf(g, hh1), hh2, RightFaceOf(g, hh2) >>)

\* remove_hourglass(v1, v2)
remove_hourglass(g, v1, v2) ==
    IF get_hourglass_to(g, v1, v2) = None THEN Raise(g, "ValueError")
    ELSE Call("_remove_hourglass_internal", g, << get_hourglass_to(g, v1, v2), v1, v2 >>)

\* get_hourglasses_as_list: clockwise from the head.
get_hourglasses_as_list(g, v) ==
    IF g.v_half_hourglasses_head[v] = None THEN << >>
    ELSE iterate_hh_clockwise(g, g.v_half_hourglasses_head[v])

\* The loop of remove_vertex.
RECURSIVE RemoveEach(_, _, _, _)
RemoveEach(g, hhs, del_vertex, i) ==
    IF i > Len(hhs) THEN g
    ELSE RemoveEach(Call("_remove_hourglass_internal", g,
                         << hhs[i], del_vertex, g.hh_v_to[hhs[i]] >>),
                    hhs, del_vertex, i + 1)

remove_vertex(g, del_vertex) ==
    IF DictHas(g.inner_vertices, g.v_id[del_vertex])
    THEN RemoveEach([g EXCEPT !.inner_vertices = DictDel(@, g.v_id[del_vertex])],
                    get_hourglasses_as_list(g, del_vertex), del_vertex, 1)
    ELSE IF DictHas(g.boundary_vertices, g.v_id[del_vertex])
    THEN RemoveEach([g EXCEPT !.boundary_vertices = DictDel(@, g.v_id[del_vertex])],
                    get_hourglasses_as_list(g, del_vertex), del_vertex, 1)
    ELSE Raise(g, "ValueError")

\* remove_vertex_by_id(v_id)
remove_vertex_by_id(g, id) ==
    IF get_vertex(g, id) = None THEN Raise(g, "ValueError")
    ELSE Call("remove_vertex", g, << get_vertex(g, id) >>)

\* remove_hourglass_by_id(v1_id, v2_id)
remove_hourglass_by_id(g, v1_id, v2_id) ==
    IF get_vertex(g, v1_id) = None \/ get_vertex(g, v2_id) = None
    THEN Raise(g, "ValueError")
    ELSE Call("remove_hourglass", g, << get_vertex(g, v1_id), get_vertex(g, v2_id) >>)

\* thicken_hourglass_by_id(v1_id, v2_id), with thicken_hourglass(v1, v2).
thicken_hourglass_by_id(g, v1_id, v2_id) ==
    LET thicken_hourglass(v1, v2) ==
            IF get_hourglass_to(g, v1, v2) = None THEN Raise(g, "ValueError")
            ELSE Call("thicken", g, << get_hourglass_to(g, v1, v2) >>)
    IN  IF get_vertex(g, v1_id) = None \/ get_vertex(g, v2_id) = None
        THEN Raise(g, "ValueError")
        ELSE thicken_hourglass(get_vertex(g, v1_id), get_vertex(g, v2_id))

\* thin_hourglass_by_id(v1_id, v2_id), with thin_hourglass(v1, v2).
thin_hourglass_by_id(g, v1_id, v2_id) ==
    LET thin_hourglass(v1, v2) ==
            IF get_hourglass_to(g, v1, v2) = None THEN Raise(g, "ValueError")
            ELSE Call("thin", g, << get_hourglass_to(g, v1, v2) >>)
    IN  IF get_vertex(g, v1_id) = None \/ get_vertex(g, v2_id) = None
        THEN Raise(g, "ValueError")
        ELSE thin_hourglass(get_vertex(g, v1_id), get_vertex(g, v2_id))

-----------------------------------------------------------------------------
(* Square move (face.py, hourglassplabicgraph.py).  The lists new_vertices  *)
(* and removed_vertices that Face.square_move returns are kept in the       *)
(* fields of the same names.                                                *)

\* is_square_move_valid(r): the loop returns False at the first half
\* hourglass that breaks the alternation of colours or comes after more
\* than 4 others; count is k - 1 at the k-th half hourglass.
is_square_move_valid(g, self, r) ==
    LET hhs == iterate_face(g, self)
        head_filled == g.v_filled[g.hh_v_from[g.f_half_hourglasses_head[self]]]
    IN  /\ \A k \in 1..Len(hhs) :
               /\ g.v_filled[g.hh_v_to[hhs[k]]] = (IF k % 2 = 1 THEN ~ head_filled
                                                   ELSE head_filled)
               /\ ~ (k - 1 > 4)
        /\ SumMult(g, hhs, 1) = r

\* A round that leaves a corner of simple degree 3 or less as it is.
SquareMoveCorner_expand_only(g, hh) ==
    IF simple_degree(g, g.hh_v_from[hh]) > 3
    THEN [Call("square_move_expand", g, << g.hh_v_from[hh], hh, g.hh_cw_next[hh] >>)
             EXCEPT !.new_vertices = Append(@, Len(g.v_id) + 1)]
    ELSE g

\* One round of the first loop of Face.square_move.
SquareMoveCorner(g, hh) ==
    IF simple_degree(g, g.hh_v_from[hh]) > 3
    THEN [Call("square_move_expand", g, << g.hh_v_from[hh], hh, g.hh_cw_next[hh] >>)
             EXCEPT !.new_vertices = Append(@, Len(g.v_id) + 1)]
    ELSE [Call("square_move_contract", g, << g.hh_v_from[hh], g.hh_ccw_next[hh] >>)
             EXCEPT !.removed_vertices = Append(@, g.hh_v_from[hh])]

\* The two while loops that bring hh to the multiplicity target.
RECURSIVE Adjust(_, _, _)
Adjust(g, hh, target) ==
    IF ~ Ok(g) THEN g
    ELSE IF g.hh_multiplicity[hh] > target THEN Adjust(Call("thin", g, << hh >>), hh, target)
    ELSE IF g.hh_multiplicity[hh] < target THEN Adjust(Call("thicken", g, << hh >>), hh, target)
    ELSE g

\* Face.square_move(r)
Face_square_move(g, self, r) ==
    LET RECURSIVE Corners(_, _, _)
        Corners(g1, hourglasses, i) ==
            IF i > Len(hourglasses) THEN g1
            ELSE Corners(Call("SquareMoveCorner", g1, << hourglasses[i] >>),
                         hourglasses, i + 1)
        RECURSIVE Swap(_, _, _, _)
        Swap(g1, hourglasses, target_multiplicities, i) ==
            IF i > Len(hourglasses) THEN g1
            ELSE Swap(Adjust(g1, hourglasses[i], target_multiplicities[i]),
                      hourglasses, target_multiplicities, i + 1)
        Targets(g1, hourglasses) ==
            Swap(g1, hourglasses,
                 [k \in 1..Len(hourglasses) |->
                     g1.hh_multiplicity[
                         hh_right_turn(g1)[hh_right_turn(g1)[hourglasses[k]]]]],
                 1)
    IN  Targets(Corners([g EXCEPT !.new_vertices = << >>, !.removed_vertices = << >>],
                        iterate_face(g, self), 1),
                iterate_face(g, self))

\* The statements of HourglassPlabicGraph.square_move after face.square_move.
AfterFaceSquareMove(g, face) ==
    LET RECURSIVE Added(_, _)
        Added(g1, i) ==
            IF i > Len(g1.new_vertices) THEN g1
            ELSE Added([g1 EXCEPT !.inner_vertices =
                                      DictSet(@, g1.v_id[g1.new_vertices[i]],
                                              g1.new_vertices[i])], i + 1)
        RECURSIVE Removed(_, _)
        Removed(g1, i) ==
            IF i > Len(g1.removed_vertices) THEN g1
            ELSE IF ~ DictHas(g1.inner_vertices, g1.v_id[g1.removed_vertices[i]])
            THEN Raise(g1, "KeyError")
            ELSE Removed([g1 EXCEPT !.inner_vertices =
                                        DictDel(@, g1.v_id[g1.removed_vertices[i]])], i + 1)
        RECURSIVE Reheaded(_, _, _)
        Reheaded(g1, hhs, i) ==
            IF i > Len(hhs) \/ ~ Ok(g1) THEN g1
            ELSE IF g1.hh_left_face[hhs[i]] = None THEN Raise(g1, "AttributeError")
            ELSE Reheaded(Call("initialize_half_hourglasses", g1,
                               << g1.hh_left_face[hhs[i]], g1.hh_twin[hhs[i]] >>),
                          hhs, i + 1)
    IN  Reheaded(Removed(Added(g, 1), 1), iterate_face(g, face), 1)

\* HourglassPlabicGraph.square_move(face_id, r)
square_move(g, face_id, r) ==
    IF ~ DictHas(g.faces, face_id) THEN Raise(g, "ValueError")
    ELSE Call("AfterFaceSquareMove",
              Call("Face.square_move", g, << DictGet(g.faces, face_id), r >>),
              << DictGet(g.faces, face_id) >>)

-----------------------------------------------------------------------------
(* Cycle and benzene moves (face.py).                                       *)

\* is_cycle_valid that asks for more than one strand at the odd offsets.
is_cycle_valid_odd_offsets(g, self, start_hh, inverse) ==
    LET given == IF start_hh = None THEN g.f_half_hourglasses_head[self] ELSE start_hh
        own == IF g.hh_right_face[given] # self THEN g.hh_twin[given] ELSE given
        start == IF inverse THEN hh_right_turn(g)[own] ELSE own
        hhs == iterate_right_turns(g, start)
        start_filled == g.v_filled[g.hh_v_from[start]]
    IN  IF g.hh_right_face[given] # self /\ g.hh_left_face[given] # self
        THEN [exc |-> "ValueError", val |-> FALSE]
        ELSE [exc |-> "",
              val |-> /\ \A k \in 1..Len(hhs) :
                             /\ k % 2 = 0 => ~ (g.hh_multiplicity[hhs[k]] <= 1)
                             /\ g.v_filled[g.hh_v_to[hhs[k]]] =
                                    (IF k % 2 = 1 THEN ~ start_filled ELSE start_filled)
                      /\ Len(hhs) % 2 = 0]

\* Face.is_cycle_valid(start_hh, inverse): [exc, val]; ValueError when
\* start_hh has this face on neither side.
is_cycle_valid(g, self, start_hh, inverse) ==
    LET given == IF start_hh = None THEN g.f_half_hourglasses_head[self] ELSE start_hh
        own == IF g.hh_right_face[given] # self THEN g.hh_twin[given] ELSE given
        start == IF inverse THEN hh_right_turn(g)[own] ELSE own
        hhs == iterate_right_turns(g, start)
        start_filled == g.v_filled[g.hh_v_from[start]]
    IN  IF g.hh_right_face[given] # self /\ g.hh_left_face[given] # self
        THEN [exc |-> "ValueError", val |-> FALSE]
        ELSE [exc |-> "",
              val |-> /\ \A k \in 1..Len(hhs) :
                             /\ k % 2 = 1 => ~ (g.hh_multiplicity[hhs[k]] <= 1)
                             /\ g.v_filled[g.hh_v_to[hhs[k]]] =
                                    (IF k % 2 = 1 THEN ~ start_filled ELSE start_filled)
                      /\ Len(hhs) % 2 = 0]

\* cycle that thickens start_hh first: thicken, thin, thicken, ...
cycle_thickens_first(g, self, start_hh, inverse) ==
    LET given == IF start_hh = None THEN g.f_half_hourglasses_head[self] ELSE start_hh
        own == IF g.hh_right_face[given] # self THEN g.hh_twin[given] ELSE given
        start == IF inverse THEN hh_right_turn(g)[own] ELSE own
        RECURSIVE Each(_, _, _)
        Each(g1, hhs, i) ==
            IF i > Len(hhs) THEN g1
            ELSE Each(Call(IF i % 2 = 1 THEN "thicken" ELSE "thin", g1, << hhs[i] >>),
                      hhs, i + 1)
    IN  Each(g, iterate_right_turns(g, start), 1)

\* Face.cycle(start_hh, inverse): thin, thicken, thin, ... along the right
\* turns from start_hh.
cycle(g, self, start_hh, inverse) ==
    LET given == IF start_hh = None THEN g.f_half_hourglasses_head[self] ELSE start_hh
        own == IF g.hh_right_face[given] # self THEN g.hh_twin[given] ELSE given
        start == IF inverse THEN hh_right_turn(g)[own] ELSE own
        RECURSIVE Each(_, _, _)
        Each(g1, hhs, i) ==
            IF i > Len(hhs) THEN g1
            ELSE Each(Call(IF i % 2 = 1 THEN "thin" ELSE "thicken", g1, << hhs[i] >>),
                      hhs, i + 1)
    IN  Each(g, iterate_right_turns(g, start), 1)

\* is_benzene_move_valid that expects the head to have one strand.
is_benzene_move_valid_head_thin(g, self) ==
    LET hhs == iterate_face(g, self)
        head_filled == g.v_filled[g.hh_v_from[g.f_half_hourglasses_head[self]]]
    IN  /\ \A k \in 1..Len(hhs) :
               /\ g.hh_multiplicity[hhs[k]] = (IF k % 2 = 1 THEN 1 ELSE 2)
               /\ g.v_filled[g.hh_v_to[hhs[k]]] =
                      (IF k % 2 = 1 THEN ~ head_filled ELSE head_filled)
        /\ Len(hhs) % 2 = 0

\* Face.is_benzene_move_valid()
is_benzene_move_valid(g, self) ==
    LET hhs == iterate_face(g, self)
        head == g.f_half_hourglasses_head[self]
        head_filled == g.v_filled[g.hh_v_from[head]]
        first == IF strand_count(g, head) = 1 THEN 1 ELSE 2
    IN  /\ \A k \in 1..Len(hhs) :
               /\ g.hh_multiplicity[hhs[k]] = (IF k % 2 = 1 THEN first ELSE 3 - first)
               /\ g.v_filled[g.hh_v_to[hhs[k]]] =
                      (IF k % 2 = 1 THEN ~ head_filled ELSE head_filled)
        /\ Len(hhs) % 2 = 0

\* benzene_move that always thins the head first.
benzene_move_thins_first(g, self) ==
    LET RECURSIVE Each(_, _, _)
        Each(g1, hhs, i) ==
            IF i > Len(hhs) THEN g1
            ELSE Each(Call(IF i % 2 = 1 THEN "thin" ELSE "thicken", g1, << hhs[i] >>),
                      hhs, i + 1)
    IN  Each(g, iterate_face(g, self), 1)

\* Face.benzene_move(): thicken first when the head has one strand.
benzene_move(g, self) ==
    LET first == strand_count(g, g.f_half_hourglasses_head[self]) = 1
        RECURSIVE Each(_, _, _)
        Each(g1, hhs, i) ==
            IF i > Len(hhs) THEN g1
            ELSE Each(Call(IF first = (i % 2 = 1) THEN "thicken" ELSE "thin",
                           g1, << hhs[i] >>),
                      hhs, i + 1)
    IN  Each(g, iterate_face(g, self), 1)

\* HourglassPlabicGraph.cycle(face_id, v1_id, v2_id): the face is looked up
\* first, then the two vertices and the hourglass between them.
HPG_cycle(g, face_id, v1_id, v2_id) ==
    IF ~ DictHas(g.faces, face_id) THEN Raise(g, "ValueError")
    ELSE IF get_vertex(g, v1_id) = None \/ get_vertex(g, v2_id) = None
    THEN Raise(g, "ValueError")
    ELSE IF get_hourglass_to(g, get_vertex(g, v1_id), get_vertex(g, v2_id)) = None
    THEN Raise(g, "ValueError")
    ELSE Call("cycle", g, << DictGet(g.faces, face_id),
                             get_hourglass_to(g, get_vertex(g, v1_id), get_vertex(g, v2_id)),
                             FALSE >>)

\* HourglassPlabicGraph.benzene_move(face_id)
HPG_benzene_move(g, face_id) ==
    IF ~ DictHas(g.faces, face_id) THEN Raise(g, "ValueError")
    ELSE Call("benzene_move", g, << DictGet(g.faces, face_id) >>)

\* Face.is_square_move4_valid(): False at the first half hourglass that
\* has not multiplicity 1, breaks the alternation of colours or comes after
\* more than 4 others.
is_square_move4_valid(g, self) ==
    LET hhs == iterate_face(g, self)
        head_filled == g.v_filled[g.hh_v_from[g.f_half_hourglasses_head[self]]]
    IN  \A k \in 1..Len(hhs) :
            /\ g.hh_multiplicity[hhs[k]] = 1
            /\ g.v_filled[g.hh_v_to[hhs[k]]] = (IF k % 2 = 1 THEN ~ head_filled
                                                ELSE head_filled)
            /\ ~ (k - 1 > 4)

\* One round of the loop of Face.square_move4.
SquareMove4Corner(g, hh) ==
    IF simple_degree(g, g.hh_v_from[hh]) = 4
    THEN [Call("square_move_expand", g, << g.hh_v_from[hh], hh, g.hh_cw_next[hh] >>)
             EXCEPT !.new_vertices = Append(@, Len(g.v_id) + 1)]
    ELSE [Call("square_move_contract", g, << g.hh_v_from[hh], g.hh_ccw_next[hh] >>)
             EXCEPT !.removed_vertices = Append(@, g.hh_v_from[hh])]

\* Face.square_move4()
square_move4(g, self) ==
    LET RECURSIVE Corners(_, _, _)
        Corners(g1, hourglasses, i) ==
            IF i > Len(hourglasses) THEN g1
            ELSE Corners(SquareMove4Corner(g1, hourglasses[i]), hourglasses, i + 1)
    IN  Corners([g EXCEPT !.new_vertices = << >>, !.removed_vertices = << >>],
                iterate_face(g, self), 1)

\* The program state after HourglassPlabicGraph.is_square_move_valid(face_id,
\* r), is_cycle_valid(face_id, v1_id, v2_id) and is_benzene_move_valid(
\* face_id): _get_face, _get_hourglass_by_id and Face.is_cycle_valid may raise
\* ValueError; the methods assign to no field of any object.
HPG_is_square_move_valid(g, face_id, r) ==
    IF ~ DictHas(g.faces, face_id) THEN Raise(g, "ValueError") ELSE g

HPG_is_cycle_valid(g, face_id, v1_id, v2_id) ==
    IF ~ DictHas(g.faces, face_id) THEN Raise(g, "ValueError")
    ELSE IF get_vertex(g, v1_id) = None \/ get_vertex(g, v2_id) = None
    THEN Raise(g, "ValueError")
    ELSE IF get_hourglass_to(g, get_vertex(g, v1_id), get_vertex(g, v2_id)) = None
    THEN Raise(g, "ValueError")
    ELSE Raise(g, is_cycle_valid(g, DictGet(g.faces, face_id),
                                 get_hourglass_to(g, get_vertex(g, v1_id),
                                                  get_vertex(g, v2_id)),
                                 FALSE).exc)

\* is_benzene_move_valid that performs the move it finds valid.
HPG_is_benzene_move_valid_and_move(g, face_id) ==
    IF ~ DictHas(g.faces, face_id) THEN Raise(g, "ValueError")
    ELSE IF is_benzene_move_valid(g, DictGet(g.faces, face_id))
    THEN Call("benzene_move", g, << DictGet(g.faces, face_id) >>)
    ELSE g

HPG_is_benzene_move_valid(g, face_id) ==
    IF ~ DictHas(g.faces, face_id) THEN Raise(g, "ValueError") ELSE g

-----------------------------------------------------------------------------
(* Trips (halfstrand.py, vertex.py, hourglassplabicgraph.py) and            *)
(* isomorphism.  A method that returns a value or raises is a record        *)
(* [exc, val]: val is meaningful when exc is "".                            *)

\* get_ith_trip_turn that does not cross to the twin: it turns around the
\* vertex the strand leaves.
get_ith_trip_turn_same_vertex(g, s, i) ==
    IF g.v_filled[g.hh_v_to[g.hs_hourglass[s]]]
    THEN get_ith_element(g.hs_ccw_next, s, i)
    ELSE get_ith_element(g.hs_cw_next, s, i)

\* get_ith_trip_turn(i): the i-th right at a filled vertex, the i-th left
\* at an unfilled one.
get_ith_trip_turn(g, s, i) ==
    IF g.v_filled[g.hh_v_to[g.hs_hourglass[s]]]
    THEN get_ith_element(g.hs_ccw_next, g.hs_twin[s], i)
    ELSE get_ith_element(g.hs_cw_next, g.hs_twin[s], i)

\* TripEnd that stops after one turn.
TripEnd_one_turn(g, strand, i, fuel) ==
    IF g.v_boundary[g.hh_v_to[g.hs_hourglass[strand]]] THEN strand
    ELSE get_ith_trip_turn(g, strand, i)

\* The last strand of HalfStrand.get_trip(i) for a strand that leaves a
\* boundary vertex: the first one that leads to a boundary vertex.  The
\* Python loop does not stop when there is none; here it is cut after fuel
\* turns.
RECURSIVE TripEnd(_, _, _, _)
TripEnd(g, strand, i, fuel) ==
    IF g.v_boundary[g.hh_v_to[g.hs_hourglass[strand]]] \/ fuel = 0 THEN strand
    ELSE TripEnd(g, get_ith_trip_turn(g, strand, i), i, fuel - 1)

\* Vertex.get_trip(i)[-1].v_to().id for a boundary vertex of total degree 1:
\* the trip starts on the head strand of the first hourglass, clockwise
\* from the head, that is not phantom.
TripEndId(g, v, i) ==
    LET RECURSIVE Inward(_, _)
        Inward(hh, fuel) ==
            IF is_phantom(g, hh) /\ fuel > 0 THEN Inward(g.hh_cw_next[hh], fuel - 1)
            ELSE hh
    IN  g.v_id[g.hh_v_to[g.hs_hourglass[
            TripEnd(g, g.hh_half_strands_head[
                           Inward(g.v_half_hourglasses_head[v], Len(g.hh_twin))],
                    i, Len(g.hs_twin))]]]

\* HalfStrand.invert_ith_trip_turn(i): the strand that turns onto s on trip i.
invert_ith_trip_turn(g, s, i) ==
    IF g.v_filled[g.hh_v_from[g.hs_hourglass[s]]]
    THEN g.hs_twin[get_ith_element(g.hs_cw_next, s, i)]
    ELSE g.hs_twin[get_ith_element(g.hs_ccw_next, s, i)]

\* get_trip that does not turn back from a strand inside the graph.
get_trip_forward_only(g, self, i) ==
    LET v_to(s) == g.hh_v_to[g.hs_hourglass[s]]
        from_boundary == g.v_boundary[g.hh_v_from[g.hs_hourglass[self]]]
        seen(s, visited) == ~ from_boundary /\ s \in Range(visited)
        RECURSIVE Forward(_, _, _)
        Forward(s, visited, fuel) ==
            IF ~ g.v_boundary[v_to(s)] /\ ~ seen(s, visited) /\ fuel > 0
            THEN Forward(get_ith_trip_turn(g, s, i), Append(visited, s), fuel - 1)
            ELSE IF ~ seen(s, visited) THEN Append(visited, s) ELSE visited
    IN  Forward(self, << >>, Len(g.hs_twin))

\* get_trip that keeps no visited set: from a strand inside the graph it
\* walks on as it does from the boundary.
get_trip_without_visited_set(g, self, i) ==
    LET RECURSIVE Forward(_, _, _)
        Forward(s, visited, fuel) ==
            IF ~ g.v_boundary[g.hh_v_to[g.hs_hourglass[s]]] /\ fuel > 0
            THEN Forward(get_ith_trip_turn(g, s, i), Append(visited, s), fuel - 1)
            ELSE Append(visited, s)
    IN  Forward(self, << >>, Len(g.hs_twin))

\* HalfStrand.get_trip(i): the list of the half strands visited.  From a
\* strand that leaves a boundary vertex the walk goes on to the first strand
\* that enters one; from any other strand it also stops at a strand already
\* visited (an isolated trip), and otherwise the strands found by turning
\* back to the boundary are put in front.  The Python loops do not stop on
\* a graph where no boundary is met; here they are cut after fuel turns.
get_trip(g, self, i) ==
    LET v_from(s) == g.hh_v_from[g.hs_hourglass[s]]
        v_to(s) == g.hh_v_to[g.hs_hourglass[s]]
        from_boundary == g.v_boundary[v_from(self)]
        seen(s, visited) == ~ from_boundary /\ s \in Range(visited)
        RECURSIVE Forward(_, _, _)
        Forward(s, visited, fuel) ==
            IF ~ g.v_boundary[v_to(s)] /\ ~ seen(s, visited) /\ fuel > 0
            THEN Forward(get_ith_trip_turn(g, s, i), Append(visited, s), fuel - 1)
            ELSE IF ~ seen(s, visited)
            THEN [isolated |-> FALSE, visited |-> Append(visited, s)]
            ELSE [isolated |-> TRUE, visited |-> visited]
        RECURSIVE Backward(_, _, _)
        Backward(s, prepend_visited, fuel) ==
            IF ~ g.v_boundary[v_from(s)] /\ fuel > 0
            THEN Backward(invert_ith_trip_turn(g, s, i),
                          << invert_ith_trip_turn(g, s, i) >> \o prepend_visited, fuel - 1)
            ELSE prepend_visited
        forward == Forward(self, << >>, Len(g.hs_twin))
    IN  IF forward.isolated \/ from_boundary THEN forward.visited
        ELSE Backward(invert_ith_trip_turn(g, self, i),
                      << invert_ith_trip_turn(g, self, i) >>, Len(g.hs_twin))
                 \o forward.visited

\* Vertex.get_trip that accepts a total degree of 2 as well.
Vertex_get_trip_up_to_two(g, self, i) ==
    LET RECURSIVE Inward(_, _)
        Inward(hh, fuel) ==
            IF is_phantom(g, hh) /\ fuel > 0 THEN Inward(g.hh_cw_next[hh], fuel - 1)
            ELSE hh
    IN  IF total_degree(g, self) \notin {1, 2}
        THEN [exc |-> "NotImplementedError", val |-> << >>]
        ELSE [exc |-> "",
              val |-> get_trip(g, g.hh_half_strands_head[
                                     Inward(g.v_half_hourglasses_head[self], Len(g.hh_twin))],
                               i)]

\* Vertex.get_trip(i): [exc, val]; NotImplementedError unless the total
\* degree is 1, else the trip of the head strand of the first hourglass,
\* clockwise from the head, that has strands.
Vertex_get_trip(g, self, i) ==
    LET RECURSIVE Inward(_, _)
        Inward(hh, fuel) ==
            IF is_phantom(g, hh) /\ fuel > 0 THEN Inward(g.hh_cw_next[hh], fuel - 1)
            ELSE hh
    IN  IF total_degree(g, self) # 1
        THEN [exc |-> "NotImplementedError", val |-> << >>]
        ELSE [exc |-> "",
              val |-> get_trip(g, g.hh_half_strands_head[
                                     Inward(g.v_half_hourglasses_head[self], Len(g.hh_twin))],
                               i)]

get_trip_perm(g, i) ==
    [k \in 1..Len(g.boundary_vertices) |-> TripEndId(g, g.boundary_vertices[k].v, i)]

\* get_trip_perms(): max() of no inner vertex raises ValueError, and
\* Vertex.get_trip raises NotImplementedError at a boundary vertex whose
\* total degree is not 1.
get_trip_perms(g) ==
    LET r == CHOOSE d \in {total_degree(g, v) : v \in Range(DictValues(g.inner_vertices))} :
                 \A v \in Range(DictValues(g.inner_vertices)) : total_degree(g, v) <= d
    IN  IF g.inner_vertices = << >> THEN [exc |-> "ValueError", val |-> << >>]
        ELSE IF r > 1 /\ \E v \in Range(DictValues(g.boundary_vertices)) :
                             total_degree(g, v) # 1
        THEN [exc |-> "NotImplementedError", val |-> << >>]
        ELSE [exc |-> "", val |-> [i \in 1..(r - 1) |-> get_trip_perm(g, i)]]

\* is_r_valent(r): every inner vertex has total degree r.
is_r_valent(g, r) ==
    \A v \in Range(DictValues(g.inner_vertices)) : total_degree(g, v) = r

\* _get_interior_hourglasses that finds none.
get_interior_hourglasses_none(g) == {}

\* _get_interior_hourglasses(): for every hourglass at an inner vertex, the
\* half met first when the inner vertices are gone through in dictionary
\* order and the half hourglasses of each counterclockwise from its head.
get_interior_hourglasses(g) ==
    LET RECURSIVE AtVertex(_, _, _)
        AtVertex(hourglasses, hhs, k) ==
            IF k > Len(hhs) THEN hourglasses
            ELSE AtVertex(IF g.hh_twin[hhs[k]] \in hourglasses THEN hourglasses
                          ELSE hourglasses \cup {hhs[k]},
                          hhs, k + 1)
        RECURSIVE EachVertex(_, _)
        EachVertex(hourglasses, n) ==
            IF n > Len(g.inner_vertices) THEN hourglasses
            ELSE EachVertex(AtVertex(hourglasses, iterate_vertex(g, g.inner_vertices[n].v), 1),
                          n + 1)
    IN  EachVertex({}, 1)

\* validate_crossing(trip1, ind1, trip2, ind2) of is_fully_reduced: [exc, val],
\* val the number of shared vertices or -1.
validate_crossing(g, trip1, ind1, trip2, ind2) ==
    LET v_to(s) == g.hh_v_to[g.hs_hourglass[s]]
        returns(val) == [exc |-> "", val |-> val]
        raises(exc) == [exc |-> exc, val |-> FALSE]
        \* the number of turns of the while loop
        RECURSIVE Shared(_, _)
        Shared(o1, o2) ==
            IF /\ o1 < Len(trip1) /\ o2 < Len(trip2)
               /\ v_to(trip1[o1 + 1]) = v_to(trip2[o2 + 1])
            THEN 1 + Shared(o1 + 1, o2 + 1)
            ELSE 0
        \* the first element of the list for which Hit holds, 0 when none
        First(list, Hit(_)) ==
            IF \E k \in 1..Len(list) : Hit(list[k])
            THEN list[CHOOSE k \in 1..Len(list) :
                          Hit(list[k]) /\ \A j \in 1..(k - 1) : ~ Hit(list[j])]
            ELSE None
    IN  LET count == Shared(ind1, ind2)
            out_ind1 == ind1 + count
            out_ind2 == ind2 + count
            inhh1 == g.hs_twin[trip1[ind1 + 1]]
            inhh2 == g.hs_twin[trip2[ind2 + 1]]
            outhh1 == trip1[out_ind1 + 1]
            outhh2 == trip2[out_ind2 + 1]
            inhh_shared == trip1[ind1 + 2]
            outhh_shared == g.hs_twin[trip1[out_ind1]]
            met == First(Iterate(g.hs_cw_next, inhh1),
                         LAMBDA hh : hh = inhh_shared \/ hh = inhh2)
            encounter_first == IF met = inhh_shared THEN outhh_shared ELSE outhh2
            encounter_second == IF met = inhh_shared THEN outhh2 ELSE outhh_shared
            leaves == First(Iterate(g.hs_cw_next, outhh1),
                            LAMBDA hh : hh = encounter_first \/ hh = encounter_second)
        IN  IF ind1 = 0 \/ out_ind1 = Len(trip1) THEN returns(count)
            ELSE IF out_ind2 >= Len(trip2) THEN raises("IndexError")
            ELSE IF count = 1
            THEN \* "elif hh is inhh2 or outhh2" is always taken
                 IF inhh1 = outhh1 THEN returns(0 - 1) ELSE returns(count)
            ELSE IF ind1 + 1 >= Len(trip1) THEN raises("IndexError")
            ELSE IF met = None \/ leaves = None THEN raises("Exception")
            ELSE IF leaves = encounter_first THEN returns(count)
            ELSE returns(0 - 1)

\* is_fully_reduced(r): [exc, val].  Indices into trips count from 0 as in
\* the Python code; trip[k + 1] is the Python trip[k].
is_fully_reduced(g, r) ==
    LET v_from(s) == g.hh_v_from[g.hs_hourglass[s]]
        v_to(s) == g.hh_v_to[g.hs_hourglass[s]]
        returns(val) == [exc |-> "", val |-> val]
        raises(exc) == [exc |-> exc, val |-> FALSE]
        boundary == DictValues(g.boundary_vertices)
        \* a strand of an interior hourglass on an isolated trip of length > 2
        isolated ==
            \E hh \in get_interior_hourglasses(g) :
                \E strand \in Range(iterate_strands(g, hh)), i \in 1..(r - 1) :
                    LET trip == get_trip(g, strand, i)
                    IN  ~ g.v_boundary[v_from(trip[1])] /\ Len(trip) > 2
        trips == [i \in 1..(r - 1) |->
                     [k \in 1..Len(boundary) |-> Vertex_get_trip(g, boundary[k], i).val]]
        validate_no_self_intersections(trip) ==
            LET vertices == << v_from(trip[1]) >> \o [k \in 1..Len(trip) |-> v_to(trip[k])]
            IN  \A j, k \in 1..Len(vertices) : vertices[j] = vertices[k] => j = k
        \* [exc, found, ind1, ind2]
        find_crossing_from(trip1, ind1, trip2, ind2) ==
            LET RECURSIVE Loop(_, _)
                RECURSIVE Validated(_, _, _)
                \* the end of the inner loop's body, count being what
                \* validate_crossing returned
                Validated(count, i1, i2) ==
                    IF count.exc # ""
                    THEN [exc |-> count.exc, found |-> FALSE, ind1 |-> 0, ind2 |-> 0]
                    ELSE IF count.val = 0 - 1 THEN Loop(i1 + 1, ind2)
                    ELSE [exc |-> "", found |-> TRUE,
                          ind1 |-> i1 + count.val, ind2 |-> i2 + count.val]
                Loop(i1, i2) ==
                    IF i1 > Len(trip1) - 2
                    THEN [exc |-> "", found |-> FALSE, ind1 |-> 0, ind2 |-> 0]
                    ELSE IF i2 > Len(trip2) - 2 THEN Loop(i1 + 1, ind2)
                    ELSE IF v_to(trip1[i1 + 1]) # v_to(trip2[i2 + 1]) THEN Loop(i1, i2 + 1)
                    ELSE Validated(validate_crossing(g, trip1, i1, trip2, i2), i1, i2)
            IN  Loop(ind1, ind2)
        do_trips_double_cross(trip1, trip2) ==
            LET second(next_inds, final_inds) ==
                    IF final_inds.exc # "" THEN raises(final_inds.exc)
                    ELSE returns(final_inds.found)
                first(next_inds) ==
                    IF next_inds.exc # "" THEN raises(next_inds.exc)
                    ELSE IF ~ next_inds.found THEN returns(FALSE)
                    ELSE second(next_inds,
                                find_crossing_from(trip1, next_inds.ind1, trip2, next_inds.ind2))
            IN  first(find_crossing_from(trip1, 0, trip2, 0))
        all_compare_trips(i) == trips[i] \o (IF i < Len(trips) THEN trips[i + 1] ELSE << >>)
        \* the pairs (i, a, b) of the last loops and the first of them, in
        \* the order of the loops, at which a double crossing is found or
        \* an exception raised
        pairs == {p \in (1..Len(trips)) \X (1..Len(boundary)) \X (1..(2 * Len(boundary))) :
                      p[2] < p[3] /\ p[3] <= Len(all_compare_trips(p[1]))}
        cross(p) == do_trips_double_cross(trips[p[1]][p[2]], all_compare_trips(p[1])[p[3]])
        stops == {p \in pairs : cross(p) # returns(FALSE)}
        Before(p, q) ==
            \/ p[1] < q[1]
            \/ p[1] = q[1] /\ p[2] < q[2]
            \/ p[1] = q[1] /\ p[2] = q[2] /\ p[3] <= q[3]
        first_stop == CHOOSE p \in stops : \A q \in stops : Before(p, q)
        result(found) == IF found.exc # "" THEN found ELSE returns(FALSE)
    IN  IF ~ is_r_valent(g, r) THEN returns(FALSE)
        ELSE IF isolated THEN returns(FALSE)
        ELSE IF r > 1 /\ \E v \in Range(boundary) : total_degree(g, v) # 1
        THEN raises("NotImplementedError")
        ELSE IF \E i \in 1..(r - 1), k \in 1..Len(boundary) :
                    ~ validate_no_self_intersections(trips[i][k])
        THEN returns(FALSE)
        ELSE IF stops = {} THEN returns(TRUE)
        ELSE result(cross(first_stop))

\* traverse(): the breadth-first search from the half hourglass after the
\* one from boundary vertex 0 to boundary vertex n - 1.  exc is "None" for
\* the pair (None, None) returned when there are fewer than 2 boundary
\* vertices.
traverse(g) ==
    LET v0 == get_vertex(g, 0)
        vn == get_vertex(g, Len(g.boundary_vertices) - 1)
        none == [exc |-> "None", hh_visited |-> << >>, hh_history |-> << >>,
                 v_visited |-> << >>, v_history |-> << >>]
        Add(s, e) == IF e \in Range(s) THEN s ELSE Append(s, e)
        RECURSIVE Search(_, _)
        Search(s, i) ==
            IF i > Len(s.hh_visited) THEN s
            ELSE Search([exc |-> "",
                         hh_visited |-> Add(Add(s.hh_visited, g.hh_twin[s.hh_visited[i]]),
                                            g.hh_cw_next[s.hh_visited[i]]),
                         hh_history |-> s.hh_history \o << g.hh_twin[s.hh_visited[i]],
                                                           g.hh_cw_next[s.hh_visited[i]] >>,
                         v_visited |-> Add(s.v_visited, g.hh_v_from[s.hh_visited[i]]),
                         v_history |-> Append(s.v_history, g.hh_v_from[s.hh_visited[i]])],
                        i + 1)
        Start(hh) == Search([exc |-> "", hh_visited |-> << hh >>, hh_history |-> << hh >>,
                             v_visited |-> << >>, v_history |-> << >>], 1)
    IN  IF Len(g.boundary_vertices) <= 1 THEN none
        ELSE IF v0 = None \/ vn = None THEN [none EXCEPT !.exc = "ValueError"]
        ELSE IF get_hourglass_to(g, v0, vn) = None THEN [none EXCEPT !.exc = "ValueError"]
        ELSE Start(g.hh_ccw_next[get_hourglass_to(g, v0, vn)])

\* is_isomorphic without the comparison of a.filled and b.filled.
is_isomorphic_any_filling(g, o) ==
    LET Zip(a, b) == {<< a[k], b[k] >> : k \in 1..Len(a)}
        Same(s, t) ==
            /\ Len(s.v_visited) = Len(t.v_visited)
            /\ Len(s.v_history) = Len(t.v_history)
            /\ Zip(s.v_visited, t.v_visited) = Zip(s.v_history, t.v_history)
            /\ Len(s.hh_visited) = Len(t.hh_visited)
            /\ Len(s.hh_history) = Len(t.hh_history)
            /\ Zip(s.hh_visited, t.hh_visited) = Zip(s.hh_history, t.hh_history)
            /\ \A p \in Zip(s.hh_visited, t.hh_visited) :
                   g.hh_multiplicity[p[1]] = o.hh_multiplicity[p[2]]
        Compare(s, t) ==
            IF s.exc # "" \/ t.exc # "" THEN [exc |-> "ValueError", val |-> FALSE]
            ELSE [exc |-> "", val |-> Same(s, t)]
    IN  Compare(traverse(g), traverse(o))

\* self.is_isomorphic(other), for the graphs in the heaps g and o.
\* Unpacking the pair (None, None) raises ValueError.
is_isomorphic(g, o) ==
    LET Zip(a, b) == {<< a[k], b[k] >> : k \in 1..Len(a)}
        Same(s, t) ==
            /\ Len(s.v_visited) = Len(t.v_visited)
            /\ Len(s.v_history) = Len(t.v_history)
            /\ Zip(s.v_visited, t.v_visited) = Zip(s.v_history, t.v_history)
            /\ \A p \in Zip(s.v_visited, t.v_visited) : g.v_filled[p[1]] = o.v_filled[p[2]]
            /\ Len(s.hh_visited) = Len(t.hh_visited)
            /\ Len(s.hh_history) = Len(t.hh_history)
            /\ Zip(s.hh_visited, t.hh_visited) = Zip(s.hh_history, t.hh_history)
            /\ \A p \in Zip(s.hh_visited, t.hh_visited) :
                   g.hh_multiplicity[p[1]] = o.hh_multiplicity[p[2]]
        Compare(s, t) ==
            IF s.exc # "" \/ t.exc # "" THEN [exc |-> "ValueError", val |-> FALSE]
            ELSE [exc |-> "", val |-> Same(s, t)]
    IN  Compare(traverse(g), traverse(o))

\* HourglassPlabicGraph.__eq__(other), other being a HourglassPlabicGraph.
HPG_eq(g, o) == is_isomorphic(g, o)

\* HourglassPlabicGraph.__hash__(): the pair (hh_hash, v_hash) that is handed
\* to hash(), which does not raise on tuples of integers and Booleans.
\* Unpacking the pair (None, None) raises ValueError.
HPG_hash(g) ==
    LET t == traverse(g)
        Index(s, e) == (CHOOSE k \in 1..Len(s) :
                            s[k] = e /\ \A j \in 1..(k - 1) : s[j] # e) - 1
    IN  IF t.exc # "" THEN [exc |-> "ValueError", val |-> << >>]
        ELSE [exc |-> "",
              val |-> << [k \in 1..Len(t.hh_history) |->
                             << Index(t.hh_visited, t.hh_history[k]),
                                g.hh_multiplicity[t.hh_history[k]] >>],
                         [k \in 1..Len(t.v_history) |->
                             << Index(t.v_visited, t.v_history[k]),
                                g.v_filled[t.v_history[k]] >>] >>]

-----------------------------------------------------------------------------
(* Method calls.                                                           *)

\* An exception raised earlier in the call propagates: nothing more is done.
Call(name, g, args) ==
    IF g.raised # "" THEN g ELSE
    CASE name = "Face" -> Face_init(g, args[1], args[2])
      [] name = "initialize_half_hourglasses" ->
             initialize_half_hourglasses(g, args[1], args[2])
      [] name = "AddFace" -> AddFace(g, args[1])
      [] name = "FaceNewHourglass" -> FaceNewHourglass(g, args[1], args[2])
      [] name = "RefaceAfterRemoval" ->
             RefaceAfterRemoval(g, args[1], args[2], args[3], args[4], args[5])
      [] name = "construct_boundary" -> construct_boundary(g, args[1], args[2])
      [] name = "create_vertex" ->
             create_vertex(g, args[1], args[2], args[3], args[4], args[5], args[6])
      [] name = "create_hourglass" -> create_hourglass(g, args[1], args[2], args[3])
      [] name = "_remove_hourglass_internal" ->
             remove_hourglass_internal(g, args[1], args[2], args[3])
      [] name = "remove_hourglass" -> remove_hourglass(g, args[1], args[2])
      [] name = "remove_vertex" -> remove_vertex(g, args[1])
      [] name = "SquareMoveCorner" -> SquareMoveCorner(g, args[1])
      [] name = "Face.square_move" -> Face_square_move(g, args[1], args[2])
      [] name = "AfterFaceSquareMove" -> AfterFaceSquareMove(g, args[1])
      [] name = "square_move" -> square_move(g, args[1], args[2])
      [] name = "cycle" -> cycle(g, args[1], args[2], args[3])
      [] name = "benzene_move" -> benzene_move(g, args[1])
      [] name = "HalfHourglass" -> HalfHourglass_init(g, args[1], args[2], args[3])
      [] name = "insert_cw_next" -> hh_insert_cw_next(g, args[1], args[2])
      [] name = "insert_ccw_next" -> hh_insert_ccw_next(g, args[1], args[2])
      [] name = "remove" -> hh_remove(g, args[1])
      [] name = "thicken" -> add_strand(g, args[1])
      [] name = "thin" -> remove_strand(g, args[1])
      [] name = "reparent" -> reparent(g, args[1], args[2])
      [] name = "_reset_head" -> reset_head(g, args[1])
      [] name = "_insert_hourglass" -> insert_hourglass(g, args[1], args[2])
      [] name = "_remove_hourglass" -> v_remove_hourglass(g, args[1], args[2])
      [] name = "create_hourglass_between" ->
             create_hourglass_between(g, args[1], args[2], args[3])
      [] name = "remove_hourglass_between" ->
             remove_hourglass_between(g, args[1], args[2])
      [] name = "square_move_contract" -> square_move_contract(g, args[1], args[2])
      [] name = "square_move_expand" ->
             square_move_expand(g, args[1], args[2], args[3])

-----------------------------------------------------------------------------
(* Specification Spec: the Vertex / HalfHourglass level.  As in            *)
(* tests.py:face_tests, Vertex objects are constructed directly and the     *)
(* class methods are called on them.                                        *)

\* hist keeps the last two calls: the method, its arguments, the program
\* state in which it was called and the exception it raised.
\* exc is the exception the call raised ("" when it returned).
Invocation(op, a, b, c) == [op |-> op, a |-> a, b |-> b, c |-> c, pre |-> Heap, exc |-> ""]

Record(call) ==
    /\ ops' = ops + 1
    /\ hist' = LET e == [call EXCEPT !.exc = raised']
               IN  IF Len(hist) < 2 THEN Append(hist, e)
                   ELSE Append(Tail(hist), e)

\* No more than MaxOps calls are explored, and none after a call that does
\* not return.
CanCall == ops < MaxOps /\ raised # "Hang"

Last == hist[Len(hist)]
LastIs(op) == Len(hist) > 0 /\ Last.op = op

\* The vertices v1, v2, v3 of tests.py:face_tests.
KernelVertices ==
    << [id |-> 1, x |-> 0, y |-> 0, filled |-> TRUE],
       [id |-> 2, x |-> 1, y |-> 0, filled |-> FALSE],
       [id |-> 3, x |-> 1, y |-> 1, filled |-> TRUE] >>

RECURSIVE MakeVertices(_, _, _)
MakeVertices(g, vs, i) ==
    IF i > Len(vs) THEN g
    ELSE MakeVertices(Vertex_init(g, vs[i].id, vs[i].x, vs[i].y, 1, vs[i].filled, FALSE),
                      vs, i + 1)

\* The hourglasses created before the calls that are explored: each entry
\* is one call create_hourglass_between(v1, v2, m).
KernelSetups ==
    << << >>,
       << <<1, 2, 2>>, <<1, 3, 0>>, <<2, 1, 1>> >>,
       << <<1, 2, 1>>, <<2, 3, 2>>, <<3, 1, 1>> >> >>

RECURSIVE MakeHourglasses(_, _, _)
MakeHourglasses(g, es, i) ==
    IF i > Len(es) THEN g
    ELSE MakeHourglasses(Call("create_hourglass_between", g, es[i]), es, i + 1)

Vertices(g) == 1..Len(g.v_id)

\* The half hourglasses linked in the rotation list of some vertex.
Attached(g) == UNION {Range(iterate_vertex(g, v)) : v \in Vertices(g)}

Init ==
    /\ \E k \in 1..Len(KernelSetups) :
           StateIs(MakeHourglasses(MakeVertices(EmptyHeap, KernelVertices, 1),
                                   KernelSetups[k], 1))
    /\ hist = << >>
    /\ ops = 0

\* Vertex.create_hourglass_between(v1, v2, multiplicity)
CreateHourglassBetween ==
    \E v1 \in Vertices(Heap), v2 \in Vertices(Heap), m \in 0..2 :
        /\ CanCall
        /\ v1 # v2
        /\ Len(hh_twin) < 2 * MaxHourglasses
        /\ Len(hs_twin) + 2 * m <= 2 * MaxStrandPairs
        /\ Becomes(Call("create_hourglass_between", Heap, <<v1, v2, m>>))
        /\ Record(Invocation("create_hourglass_between", v1, v2, m))

\* Vertex.remove_hourglass_between(v1, v2); raises ValueError when there is
\* no hourglass from v1 to v2.
RemoveHourglassBetween ==
    \E v1 \in Vertices(Heap), v2 \in Vertices(Heap) :
        /\ CanCall
        /\ v1 # v2
        /\ Becomes(Call("remove_hourglass_between", Heap, <<v1, v2>>))
        /\ Record(Invocation("remove_hourglass_between", v1, v2, 0))

\* hh.thicken() (alias add_strand)
Thicken ==
    \E hh \in Attached(Heap) :
        /\ CanCall
        /\ hh_multiplicity[hh] < MaxMult
        /\ Len(hs_twin) < 2 * MaxStrandPairs
        /\ Becomes(Call("thicken", Heap, <<hh>>))
        /\ Record(Invocation("thicken", hh, 0, 0))

\* hh.thin() (alias remove_strand)
Thin ==
    \E hh \in Attached(Heap) :
        /\ CanCall
        /\ Becomes(Call("thin", Heap, <<hh>>))
        /\ Record(Invocation("thin", hh, 0, 0))

\* hh.reparent(v)
Reparent ==
    \E hh \in Attached(Heap), v \in Vertices(Heap) :
        /\ CanCall
        /\ Becomes(Call("reparent", Heap, <<hh, v>>))
        /\ Record(Invocation("reparent", hh, v, 0))

\* v.clear_hourglasses()
ClearHourglasses ==
    \E v \in Vertices(Heap) :
        /\ CanCall
        /\ Becomes(clear_hourglasses(Heap, v))
        /\ Record(Invocation("clear_hourglasses", v, 0, 0))

\* v.square_move_contract(out_hh)
SquareMoveContract ==
    \E out_hh \in Attached(Heap) :
        /\ CanCall
        /\ Becomes(Call("square_move_contract", Heap, <<hh_v_from[out_hh], out_hh>>))
        /\ Record(Invocation("square_move_contract", hh_v_from[out_hh], out_hh, 0))

\* v.square_move_expand(hh1, hh2)
SquareMoveExpand ==
    \E hh1 \in Attached(Heap), hh2 \in Attached(Heap) :
        /\ CanCall
        /\ hh1 # hh2
        /\ hh_v_from[hh1] = hh_v_from[hh2]
        /\ Len(v_id) < MaxVertices
        /\ Len(hh_twin) < 2 * MaxHourglasses
        /\ hh_multiplicity[hh1] + hh_multiplicity[hh2] <= MaxMult
        /\ Len(hs_twin) + 2 * (hh_multiplicity[hh1] + hh_multiplicity[hh2])
               <= 2 * MaxStrandPairs
        /\ Becomes(Call("square_move_expand", Heap, <<hh_v_from[hh1], hh1, hh2>>))
        /\ Record(Invocation("square_move_expand", hh_v_from[hh1], hh1, hh2))

\* Face(ID.get_new_id("face"), hh), as in tests.py:face_tests
NewFace ==
    \E hh \in Attached(Heap) :
        /\ CanCall
        /\ Becomes(Call("Face", get_new_id(Heap), << id_counter, hh >>))
        /\ Record(Invocation("Face", Len(f_id) + 1, hh, 0))

\* face.initialize_half_hourglasses(hh)
InitializeHalfHourglasses ==
    \E face \in 1..Len(f_id), hh \in Attached(Heap) :
        /\ CanCall
        /\ Becomes(Call("initialize_half_hourglasses", Heap, << face, hh >>))
        /\ Record(Invocation("initialize_half_hourglasses", face, hh, 0))

Next ==
    \/ NewFace
    \/ InitializeHalfHourglasses
    \/ CreateHourglassBetween
    \/ RemoveHourglassBetween
    \/ Thicken
    \/ Thin
    \/ Reparent
    \/ ClearHourglasses
    \/ SquareMoveContract
    \/ SquareMoveExpand

Spec == Init /\ [][Next]_vars

-----------------------------------------------------------------------------
(* Specification SpecG: the HourglassPlabicGraph level.  A graph is built   *)
(* and edited through construct_boundary, create_vertex, create_hourglass,  *)
(* remove_hourglass and remove_vertex, as in                                *)
(* tests.py:hourglass_plabic_graph_tests.  The graph is an embedded planar  *)
(* graph: an hourglass is created only along a segment that meets no other  *)
(* hourglass, and a vertex only at a point that is on the line of none.     *)

\* The vertices stored in the graph.
GraphVertices(g) ==
    Range(DictValues(g.inner_vertices)) \cup Range(DictValues(g.boundary_vertices))

\* The half hourglasses in the rotation lists of the graph's vertices.
GraphHalfHourglasses(g) == UNION {Range(iterate_vertex(g, v)) : v \in GraphVertices(g)}

\* The side of the line from a to b on which c lies: 1 left, -1 right, 0 on it.
Side(g, a, b, c) ==
    LET o == Delta(g, a, b).dx * Delta(g, a, c).dy - Delta(g, a, b).dy * Delta(g, a, c).dx
    IN  IF o > 0 THEN 1 ELSE IF o < 0 THEN 0 - 1 ELSE 0

\* The segment from a to b meets an hourglass of the graph other than at a
\* common end, or runs along one.
Crosses(g, a, b) ==
    \E hh \in GraphHalfHourglasses(g) :
        LET c == g.hh_v_from[hh]
            d == g.hh_v_to[hh]
        IN  IF {a, b} \cap {c, d} = {}
            THEN /\ Side(g, a, b, c) * Side(g, a, b, d) <= 0
                 /\ Side(g, c, d, a) * Side(g, c, d, b) <= 0
            ELSE \/ c = a /\ Side(g, a, b, d) = 0
                 \/ c = b /\ Side(g, b, a, d) = 0

\* The graphs the exploration starts from, each given by the calls that
\* build it from HourglassPlabicGraph(): the empty graph; a boundary of four
\* vertices around a triangle of inner vertices; a boundary of three
\* vertices with an inner vertex joined to it and an isolated inner vertex;
\* a boundary of three vertices after a vertex with the id 10 was removed
\* and another vertex with the id 10 created; two vertices joined by two
\* hourglasses, of multiplicities 2 and 1.
GraphSetups ==
    << << >>,
       << << "construct_boundary", << 4, << TRUE, TRUE, TRUE, TRUE >> >> >>,
          << "create_vertex", << 10, 0, 3, TRUE, FALSE, TRUE >> >>,
          << "create_vertex", << 11, 2, -1, FALSE, FALSE, TRUE >> >>,
          << "create_vertex", << 12, -2, -1, FALSE, FALSE, TRUE >> >>,
          << "create_hourglass", << 5, 6, 1 >> >>,
          << "create_hourglass", << 6, 7, 1 >> >>,
          << "create_hourglass", << 7, 5, 2 >> >> >>,
       << << "construct_boundary", << 3, << TRUE, FALSE, TRUE >> >> >>,
          << "create_vertex", << 10, 0, 1, FALSE, FALSE, TRUE >> >>,
          << "create_vertex", << 11, 1, -4, TRUE, FALSE, TRUE >> >>,
          << "create_hourglass", << 4, 1, 1 >> >>,
          << "create_hourglass", << 4, 3, 2 >> >> >>,
       << << "construct_boundary", << 3, << TRUE, FALSE, TRUE >> >> >>,
          << "create_vertex", << 10, 0, 1, FALSE, FALSE, TRUE >> >>,
          << "create_hourglass", << 4, 1, 1 >> >>,
          << "remove_vertex", << 4 >> >>,
          << "create_vertex", << 10, 0, 2, TRUE, FALSE, TRUE >> >>,
          << "create_hourglass", << 5, 2, 2 >> >> >>,
       << << "create_vertex", << 10, 0, 0, TRUE, FALSE, TRUE >> >>,
          << "create_vertex", << 0, 1, 0, FALSE, FALSE, TRUE >> >>,
          << "create_hourglass", << 1, 2, 2 >> >>,
          << "create_hourglass", << 1, 2, 1 >> >> >> >>

RECURSIVE Build(_, _, _)
Build(g, calls, i) ==
    IF i > Len(calls) THEN g
    ELSE Build(Call(calls[i][1], g, calls[i][2]), calls, i + 1)

InitG ==
    /\ \E k \in 1..Len(GraphSetups) : StateIs(Build(EmptyHeap, GraphSetups[k], 1))
    /\ hist = << >>
    /\ ops = 0

\* construct_boundary(n, filling): filling is True, or the list that
\* alternates from True.
ConstructBoundary ==
    \E n \in 1..MaxBoundary, alternate \in BOOLEAN :
        /\ CanCall
        /\ Becomes(Call("construct_boundary", Heap,
                        << n, [i \in 1..n |-> ~ alternate \/ i % 2 = 1] >>))
        /\ Record(Invocation("construct_boundary", n, alternate, 0))

\* create_vertex(v_id, x, y, filled, False, verify_id); without verify_id
\* the id is one that is not in use.
CreateVertex ==
    \E id \in {0, 10, 20}, x \in {-1, 2}, filled \in BOOLEAN, verify_id \in BOOLEAN :
        LET g == Call("create_vertex", Heap, << id, x, 0 - 2, filled, FALSE, verify_id >>)
            v == Len(v_id) + 1
        IN  /\ CanCall
            /\ verify_id \/ get_vertex(Heap, id) = None
            /\ Len(v_id) < MaxGraphVertices
            /\ Ok(g) => \A hh \in GraphHalfHourglasses(Heap) :
                            Side(g, hh_v_from[hh], hh_v_to[hh], v) # 0
            /\ Ok(g) => \A w \in GraphVertices(Heap) : Delta(g, w, v) # Delta(g, w, w)
            /\ Becomes(g)
            /\ Record(Invocation("create_vertex", id, x, verify_id))

\* create_hourglass(v1, v2, multiplicity) between two vertices of the graph
\* that are not joined yet.
CreateHourglass ==
    \E v1 \in GraphVertices(Heap), v2 \in GraphVertices(Heap), m \in 1..2 :
        /\ CanCall
        /\ v1 # v2
        /\ get_hourglass_to(Heap, v1, v2) = None
        /\ ~ Crosses(Heap, v1, v2)
        /\ Becomes(Call("create_hourglass", Heap, << v1, v2, m >>))
        /\ Record(Invocation("create_hourglass", v1, v2, m))

\* remove_hourglass(v1, v2); raises ValueError when v1 is not joined to v2.
RemoveHourglass ==
    \E v1 \in GraphVertices(Heap), v2 \in GraphVertices(Heap) :
        /\ CanCall
        /\ v1 # v2
        /\ Becomes(Call("remove_hourglass", Heap, << v1, v2 >>))
        /\ Record(Invocation("remove_hourglass", v1, v2, 0))

\* remove_vertex(del_vertex), for any Vertex object: one of the graph or
\* one that was removed from it; raises ValueError when del_vertex.id is
\* not in the graph.
RemoveVertex ==
    \E del_vertex \in 1..Len(v_id) :
        /\ CanCall
        /\ Becomes(Call("remove_vertex", Heap, << del_vertex >>))
        /\ Record(Invocation("remove_vertex", del_vertex, 0, 0))

\* The values of r passed to square_move.
Valences == {2, 4}

\* The vertex ids passed to the calls by id; no vertex has the id 99.
VertexIds == {0, 10, 99}

\* The face ids passed to the calls by id; no face has the id 99.
FaceIds == Range(DictKeys(faces)) \cup {99}

\* The half hourglass _get_hourglass_by_id(v1_id, v2_id) returns, None when
\* it raises ValueError.
get_hourglass_by_id(g, v1_id, v2_id) ==
    IF get_vertex(g, v1_id) = None \/ get_vertex(g, v2_id) = None THEN None
    ELSE get_hourglass_to(g, get_vertex(g, v1_id), get_vertex(g, v2_id))

\* remove_vertex_by_id(v_id); raises ValueError for an unknown id.
RemoveVertexById ==
    \E id \in VertexIds :
        /\ CanCall
        /\ Becomes(remove_vertex_by_id(Heap, id))
        /\ Record(Invocation("remove_vertex_by_id", id, 0, 0))

\* remove_hourglass_by_id(v1_id, v2_id); raises ValueError for an unknown id
\* and for vertices that are not joined.
RemoveHourglassById ==
    \E v1_id \in VertexIds, v2_id \in VertexIds :
        /\ CanCall
        /\ v1_id # v2_id
        /\ Becomes(remove_hourglass_by_id(Heap, v1_id, v2_id))
        /\ Record(Invocation("remove_hourglass_by_id", v1_id, v2_id, 0))

\* thicken_hourglass_by_id(v1_id, v2_id)
ThickenHourglassById ==
    \E v1_id \in VertexIds, v2_id \in VertexIds :
        /\ CanCall
        /\ v1_id # v2_id
        /\ get_hourglass_by_id(Heap, v1_id, v2_id) # None =>
               hh_multiplicity[get_hourglass_by_id(Heap, v1_id, v2_id)] < MaxMult
        /\ Becomes(thicken_hourglass_by_id(Heap, v1_id, v2_id))
        /\ Record(Invocation("thicken_hourglass_by_id", v1_id, v2_id, 0))

\* thin_hourglass_by_id(v1_id, v2_id)
ThinHourglassById ==
    \E v1_id \in VertexIds, v2_id \in VertexIds :
        /\ CanCall
        /\ v1_id # v2_id
        /\ Becomes(thin_hourglass_by_id(Heap, v1_id, v2_id))
        /\ Record(Invocation("thin_hourglass_by_id", v1_id, v2_id, 0))

\* square_move(face_id, r), with an unknown face id or on a face for which
\* is_square_move_valid(face_id, r) returned True.
SquareMoveById ==
    \E face_id \in FaceIds, r \in Valences :
        /\ CanCall
        /\ DictHas(faces, face_id) => is_square_move_valid(Heap, DictGet(faces, face_id), r)
        /\ Becomes(square_move(Heap, face_id, r))
        /\ Record(Invocation("square_move", face_id, r, 0))

\* cycle(face_id, v1_id, v2_id), with an unknown face id or when
\* is_cycle_valid(face_id, v1_id, v2_id) returned True.
CycleById ==
    \E face_id \in FaceIds, v1_id \in VertexIds, v2_id \in VertexIds :
        /\ CanCall
        /\ DictHas(faces, face_id) =>
               /\ get_hourglass_by_id(Heap, v1_id, v2_id) # None
               /\ is_cycle_valid(Heap, DictGet(faces, face_id),
                                 get_hourglass_by_id(Heap, v1_id, v2_id), FALSE)
                      = [exc |-> "", val |-> TRUE]
        /\ Becomes(HPG_cycle(Heap, face_id, v1_id, v2_id))
        /\ Record(Invocation("cycle", face_id, v1_id, v2_id))

\* benzene_move(face_id), with an unknown face id or when
\* is_benzene_move_valid(face_id) returned True.
BenzeneMoveById ==
    \E face_id \in FaceIds :
        /\ CanCall
        /\ DictHas(faces, face_id) => is_benzene_move_valid(Heap, DictGet(faces, face_id))
        /\ Becomes(HPG_benzene_move(Heap, face_id))
        /\ Record(Invocation("benzene_move", face_id, 0, 0))

\* is_square_move_valid(face_id, r); the value returned is recorded.
IsSquareMoveValid ==
    \E face_id \in FaceIds, r \in Valences :
        /\ CanCall
        /\ Becomes(HPG_is_square_move_valid(Heap, face_id, r))
        /\ Record(Invocation("is_square_move_valid", face_id, r,
                             /\ DictHas(faces, face_id)
                             /\ is_square_move_valid(Heap, DictGet(faces, face_id), r)))

\* face.is_square_move4_valid() on a face of the graph; the value returned
\* is recorded.
IsSquareMove4Valid ==
    \E k \in 1..Len(faces) :
        /\ CanCall
        /\ Becomes(Heap)
        /\ Record(Invocation("is_square_move4_valid", faces[k].v,
                             is_square_move4_valid(Heap, faces[k].v), 0))

\* is_cycle_valid(face_id, v1_id, v2_id)
IsCycleValid ==
    \E face_id \in FaceIds, v1_id \in VertexIds, v2_id \in VertexIds :
        /\ CanCall
        /\ v1_id # v2_id
        /\ Becomes(HPG_is_cycle_valid(Heap, face_id, v1_id, v2_id))
        /\ Record(Invocation("is_cycle_valid", face_id, v1_id, v2_id))

\* is_benzene_move_valid(face_id); the value returned is recorded.
IsBenzeneMoveValid ==
    \E face_id \in FaceIds :
        /\ CanCall
        /\ Becomes(HPG_is_benzene_move_valid(Heap, face_id))
        /\ Record(Invocation("is_benzene_move_valid", face_id,
                             /\ DictHas(faces, face_id)
                             /\ is_benzene_move_valid(Heap, DictGet(faces, face_id)),
                             0))

NextG ==
    \/ ConstructBoundary
    \/ CreateVertex
    \/ CreateHourglass
    \/ RemoveHourglass
    \/ RemoveVertex
    \/ RemoveVertexById
    \/ RemoveHourglassById
    \/ ThickenHourglassById
    \/ ThinHourglassById
    \/ SquareMoveById
    \/ CycleById
    \/ BenzeneMoveById
    \/ IsSquareMoveValid
    \/ IsSquareMove4Valid
    \/ IsCycleValid
    \/ IsBenzeneMoveValid

SpecG == InitG /\ [][NextG]_vars

-----------------------------------------------------------------------------
(* Specification SpecSq: square moves on finished graphs.  The graphs are   *)
(* built as tests.py builds them, by construct_boundary, create_vertex and  *)
(* create_hourglass; then square_move, thicken_hourglass and thin_hourglass *)
(* are called, and cycle and benzene_move on the faces of the graph.        *)

\* 1: create_test_HPG (tests.py), 4-valent, with the square face12.
\* 2: a 2-valent graph with two parallel hourglasses between two inner
\*    vertices.
\* 3: a square whose corners have degrees 2, 3, 3, 3.
\* 4: a 4-valent graph whose face6 has two boundary vertices among its four.
\* 5: the hexagon of tests.py:face_tests, multiplicities 1, 2, 1, 2, 1, 2.
\* 6: graph 4 with the hourglasses to the boundary vertices 0 and 1 of
\*    multiplicity 2.
\* 7: one hourglass of multiplicity 2 between two inner vertices.
\* 8: a 3-valent graph of two parts, a square of multiplicities 1, 2, 1, 2
\*    and a vertex joined to boundary vertex 0 by an hourglass of
\*    multiplicity 2 and to boundary vertex 1 by one of multiplicity 1.
SquareSetups ==
    << << << "construct_boundary", << 8, << TRUE, TRUE, TRUE, TRUE, TRUE, TRUE, TRUE, TRUE >> >> >>,
          << "create_vertex", << 8, 5, 5, FALSE, FALSE, FALSE >> >>,
          << "create_vertex", << 9, 5, -5, FALSE, FALSE, FALSE >> >>,
          << "create_vertex", << 10, -5, -5, FALSE, FALSE, FALSE >> >>,
          << "create_vertex", << 11, -5, 5, FALSE, FALSE, FALSE >> >>,
          << "create_vertex", << 12, 2, 2, TRUE, FALSE, FALSE >> >>,
          << "create_vertex", << 13, -2, -2, TRUE, FALSE, FALSE >> >>,
          << "create_hourglass", << 9, 13, 2 >> >>,
          << "create_hourglass", << 11, 14, 2 >> >>,
          << "create_hourglass", << 10, 13, 1 >> >>,
          << "create_hourglass", << 10, 14, 1 >> >>,
          << "create_hourglass", << 12, 13, 1 >> >>,
          << "create_hourglass", << 12, 14, 1 >> >>,
          << "create_hourglass", << 9, 1, 1 >> >>,
          << "create_hourglass", << 9, 2, 1 >> >>,
          << "create_hourglass", << 10, 3, 1 >> >>,
          << "create_hourglass", << 10, 4, 1 >> >>,
          << "create_hourglass", << 11, 5, 1 >> >>,
          << "create_hourglass", << 11, 6, 1 >> >>,
          << "create_hourglass", << 12, 7, 1 >> >>,
          << "create_hourglass", << 12, 8, 1 >> >> >>,
       << << "construct_boundary", << 2, << TRUE, TRUE >> >> >>,
          << "create_vertex", << 20, -1, 0, TRUE, FALSE, FALSE >> >>,
          << "create_vertex", << 21, 1, 0, FALSE, FALSE, FALSE >> >>,
          << "create_vertex", << 22, 0, 5, TRUE, FALSE, FALSE >> >>,
          << "create_hourglass", << 3, 4, 1 >> >>,
          << "create_hourglass", << 3, 4, 1 >> >>,
          << "create_hourglass", << 5, 1, 1 >> >>,
          << "create_hourglass", << 5, 2, 1 >> >> >>,
       << << "construct_boundary", << 3, << TRUE, TRUE, TRUE >> >> >>,
          << "create_vertex", << 100, 3, 3, TRUE, FALSE, FALSE >> >>,
          << "create_vertex", << 101, 3, -3, FALSE, FALSE, FALSE >> >>,
          << "create_vertex", << 102, -3, -3, TRUE, FALSE, FALSE >> >>,
          << "create_vertex", << 103, -3, 3, FALSE, FALSE, FALSE >> >>,
          << "create_hourglass", << 4, 5, 1 >> >>,
          << "create_hourglass", << 5, 6, 1 >> >>,
          << "create_hourglass", << 6, 7, 1 >> >>,
          << "create_hourglass", << 7, 4, 1 >> >>,
          << "create_hourglass", << 5, 1, 1 >> >>,
          << "create_hourglass", << 6, 2, 1 >> >>,
          << "create_hourglass", << 7, 3, 1 >> >> >>,
       << << "construct_boundary", << 4, << FALSE, TRUE, FALSE, TRUE >> >> >>,
          << "create_vertex", << 10, 2, 3, TRUE, FALSE, FALSE >> >>,
          << "create_vertex", << 11, 2, -3, FALSE, FALSE, FALSE >> >>,
          << "create_hourglass", << 5, 1, 1 >> >>,
          << "create_hourglass", << 6, 2, 1 >> >>,
          << "create_hourglass", << 5, 6, 2 >> >>,
          << "create_hourglass", << 5, 4, 1 >> >>,
          << "create_hourglass", << 6, 3, 1 >> >> >>,
       << << "create_vertex", << 1, 0, 0, TRUE, FALSE, FALSE >> >>,
          << "create_vertex", << 2, 1, 0, FALSE, FALSE, FALSE >> >>,
          << "create_vertex", << 3, 2, 1, TRUE, FALSE, FALSE >> >>,
          << "create_vertex", << 4, 1, 2, FALSE, FALSE, FALSE >> >>,
          << "create_vertex", << 5, 0, 2, TRUE, FALSE, FALSE >> >>,
          << "create_vertex", << 6, -1, 1, FALSE, FALSE, FALSE >> >>,
          << "create_hourglass", << 2, 1, 1 >> >>,
          << "create_hourglass", << 3, 2, 2 >> >>,
          << "create_hourglass", << 4, 3, 1 >> >>,
          << "create_hourglass", << 5, 4, 2 >> >>,
          << "create_hourglass", << 6, 5, 1 >> >>,
          << "create_hourglass", << 1, 6, 2 >> >> >>,
       << << "construct_boundary", << 4, << FALSE, TRUE, FALSE, TRUE >> >> >>,
          << "create_vertex", << 10, 2, 3, TRUE, FALSE, FALSE >> >>,
          << "create_vertex", << 11, 2, -3, FALSE, FALSE, FALSE >> >>,
          << "create_hourglass", << 5, 1, 2 >> >>,
          << "create_hourglass", << 6, 2, 2 >> >>,
          << "create_hourglass", << 5, 6, 2 >> >>,
          << "create_hourglass", << 5, 4, 1 >> >>,
          << "create_hourglass", << 6, 3, 1 >> >> >>,
       << << "create_vertex", << 1, 0, 0, TRUE, FALSE, FALSE >> >>,
          << "create_vertex", << 2, 1, 0, FALSE, FALSE, FALSE >> >>,
          << "create_hourglass", << 1, 2, 2 >> >> >>,
       << << "construct_boundary", << 2, << TRUE, TRUE >> >> >>,
          << "create_vertex", << 10, -1, 1, TRUE, FALSE, FALSE >> >>,
          << "create_vertex", << 11, 1, 1, FALSE, FALSE, FALSE >> >>,
          << "create_vertex", << 12, 1, -1, TRUE, FALSE, FALSE >> >>,
          << "create_vertex", << 13, -1, -1, FALSE, FALSE, FALSE >> >>,
          << "create_hourglass", << 3, 4, 1 >> >>,
          << "create_hourglass", << 4, 5, 2 >> >>,
          << "create_hourglass", << 5, 6, 1 >> >>,
          << "create_hourglass", << 6, 3, 2 >> >>,
          << "create_vertex", << 30, 0, 7, TRUE, FALSE, FALSE >> >>,
          << "create_hourglass", << 7, 1, 2 >> >>,
          << "create_hourglass", << 7, 2, 1 >> >> >> >>

InitSq ==
    /\ \E k \in 1..Len(SquareSetups) : StateIs(Build(EmptyHeap, SquareSetups[k], 1))
    /\ hist = << >>
    /\ ops = 0

\* square_move(face_id, r), called as tests.py calls it, on a face for which
\* is_square_move_valid(face_id, r) returned True (face.py: square_move may
\* crash or corrupt the graph otherwise).
SquareMove ==
    \E k \in 1..Len(faces), r \in Valences :
        /\ CanCall
        /\ is_square_move_valid(Heap, faces[k].v, r)
        /\ Becomes(Call("square_move", Heap, << faces[k].k, r >>))
        /\ Record(Invocation("square_move", faces[k].k, r, 0))

\* thicken_hourglass(v1, v2) for joined vertices, v1 an inner one.
ThickenHourglass ==
    \E v1 \in Range(DictValues(inner_vertices)), v2 \in GraphVertices(Heap) :
        /\ CanCall
        /\ get_hourglass_to(Heap, v1, v2) # None
        /\ hh_multiplicity[get_hourglass_to(Heap, v1, v2)] < MaxMult
        /\ Becomes(Call("thicken", Heap, << get_hourglass_to(Heap, v1, v2) >>))
        /\ Record(Invocation("thicken_hourglass", v1, v2, 0))

\* thin_hourglass(v1, v2) for joined vertices, v1 an inner one.
ThinHourglass ==
    \E v1 \in Range(DictValues(inner_vertices)), v2 \in GraphVertices(Heap) :
        /\ CanCall
        /\ get_hourglass_to(Heap, v1, v2) # None
        /\ Becomes(Call("thin", Heap, << get_hourglass_to(Heap, v1, v2) >>))
        /\ Record(Invocation("thin_hourglass", v1, v2, 0))

\* face.cycle(start_hh, inverse), called as tests.py calls it, when
\* face.is_cycle_valid(start_hh, inverse) returned True (face.py: cycle may
\* crash or corrupt the graph otherwise).
Cycle ==
    \E k \in 1..Len(faces), start_hh \in GraphHalfHourglasses(Heap), inverse \in BOOLEAN :
        /\ CanCall
        /\ is_cycle_valid(Heap, faces[k].v, start_hh, inverse) = [exc |-> "", val |-> TRUE]
        /\ Becomes(Call("cycle", Heap, << faces[k].v, start_hh, inverse >>))
        /\ Record(Invocation("cycle", faces[k].v, start_hh, inverse))

\* face.benzene_move(), when face.is_benzene_move_valid() returned True.
BenzeneMove ==
    \E k \in 1..Len(faces) :
        /\ CanCall
        /\ is_benzene_move_valid(Heap, faces[k].v)
        /\ Becomes(Call("benzene_move", Heap, << faces[k].v >>))
        /\ Record(Invocation("benzene_move", faces[k].v, 0, 0))

NextSq ==
    \/ SquareMove
    \/ ThickenHourglass
    \/ ThinHourglass
    \/ Cycle
    \/ BenzeneMove

SpecSq == InitSq /\ [][NextSq]_vars

-----------------------------------------------------------------------------
(* Properties of the Vertex / HalfHourglass level (specification Spec).     *)

HalfHourglasses == 1..Len(hh_twin)

\* C1: twin symmetry.  Every half hourglass e ever constructed satisfies
\* e.twin().twin() is e, has the multiplicity of its twin, and its v_from
\* (v_to) is the v_to (v_from) of its twin, whatever sequence of
\* create_hourglass_between, remove_hourglass_between, reparent, thicken,
\* thin, square_move_contract and square_move_expand was performed.
TwinSymmetry ==
    \A e \in HalfHourglasses :
        /\ hh_twin[e] \in HalfHourglasses
        /\ hh_twin[hh_twin[e]] = e
        /\ hh_multiplicity[e] = hh_multiplicity[hh_twin[e]]
        /\ hh_v_from[e] = hh_v_to[hh_twin[e]]
        /\ hh_v_to[e] = hh_v_from[hh_twin[e]]

\* A reparent, a contraction or an expansion has just moved a half hourglass
\* (and the far end of its twin) to another vertex.
TwinSymmetryWitness ==
    /\ LastIs("reparent")
    /\ Last.pre.hh_v_from[Last.a] # Last.b
    /\ hh_v_from[Last.a] = Last.b
    /\ hh_multiplicity[Last.a] >= 1

\* C2: iterate_strands() of every half hourglass yields exactly
\* multiplicity() strands, each owned by that half hourglass, consecutive
\* clockwise from _half_strands_head to _half_strands_tail; a phantom one
\* yields none.
StrandIteration ==
    \A hh \in HalfHourglasses :
        LET ss == iterate_strands(Heap, hh)
        IN  /\ Len(ss) = hh_multiplicity[hh]
            /\ \A i \in 1..Len(ss) : hs_hourglass[ss[i]] = hh
            /\ \A i \in 1..(Len(ss) - 1) : ss[i + 1] = hs_cw_next[ss[i]]
            /\ Len(ss) > 0 => /\ ss[1] = hh_half_strands_head[hh]
                              /\ ss[Len(ss)] = hh_half_strands_tail[hh]

\* Some vertex holds, after a call, a phantom hourglass and two hourglasses
\* with strands, one of them with several.
StrandIterationWitness ==
    /\ ops > 0
    /\ \E v \in Vertices(Heap) :
           LET hhs == Range(iterate_vertex(Heap, v))
           IN  /\ \E h \in hhs : hh_multiplicity[h] = 0
               /\ \E h1, h2 \in hhs : /\ h1 # h2
                                      /\ hh_multiplicity[h1] >= 2
                                      /\ hh_multiplicity[h2] >= 1

\* What iterate_strands, the head and the tail say about hh in heap g.
StrandView(g, hh) ==
    [ multiplicity |-> g.hh_multiplicity[hh],
      strands |-> iterate_strands(g, hh),
      head |-> g.hh_half_strands_head[hh],
      tail |-> g.hh_half_strands_tail[hh] ]

ThickenThenThin ==
    /\ Len(hist) = 2
    /\ hist[1].op = "thicken" /\ hist[1].exc = ""
    /\ hist[2].op = "thin" /\ hist[2].exc = ""
    /\ hist[1].a = hist[2].a

\* C3: thicken() followed by thin() on a half hourglass of multiplicity
\* m >= 1 restores the multiplicity and the strand sub-list (same strands,
\* same order, same head and tail) of the half hourglass and of its twin.
ThickenThinRoundTrip ==
    ThickenThenThin =>
        LET hh == hist[1].a
            g0 == hist[1].pre
        IN  /\ g0.hh_multiplicity[hh] >= 1
            /\ StrandView(Heap, hh) = StrandView(g0, hh)
            /\ StrandView(Heap, hh_twin[hh]) = StrandView(g0, hh_twin[hh])

\* The round trip was made on an hourglass of multiplicity 2 whose strands
\* lie between those of other hourglasses.
ThickenThinRoundTripWitness ==
    /\ ThickenThenThin
    /\ hh_multiplicity[hist[1].a] = 2
    /\ hs_cw_next[hh_half_strands_tail[hist[1].a]] # hh_half_strands_head[hist[1].a]

\* C4: thin() raises RuntimeError on multiplicity 1 and on a phantom
\* hourglass, thicken() raises RuntimeError on a phantom one, and the
\* program state is then exactly what it was; thin() never brings an
\* hourglass to multiplicity 0.
ThinThickenErrors ==
    /\ (LastIs("thin") /\ Last.pre.hh_multiplicity[Last.a] <= 1)
           => (raised = "RuntimeError" /\ Heap = Last.pre)
    /\ (LastIs("thicken") /\ Last.pre.hh_multiplicity[Last.a] = 0)
           => (raised = "RuntimeError" /\ Heap = Last.pre)
    /\ LastIs("thin")
           => \A h \in HalfHourglasses :
                  hh_multiplicity[h] = 0 => Last.pre.hh_multiplicity[h] = 0

\* thin() has just been refused on an hourglass with a single strand.
ThinThickenErrorsWitness ==
    /\ LastIs("thin")
    /\ Last.pre.hh_multiplicity[Last.a] = 1
    /\ raised = "RuntimeError"

\* C7: face closure.  After Face(id, h) or face.initialize_half_hourglasses(h)
\* on a half hourglass h attached to a vertex, following right_turn() from
\* h comes back to h after finitely many steps, and every half hourglass x
\* met on the way has right_face() equal to the face and x.twin() has
\* left_face() equal to the face.
FaceClosure ==
    (LastIs("Face") \/ LastIs("initialize_half_hourglasses")) =>
        /\ Closes(hh_right_turn(Heap), Last.b, Last.b, Len(hh_twin))
        /\ \A x \in Range(iterate_right_turns(Heap, Last.b)) :
               /\ hh_right_face[x] = Last.a
               /\ hh_left_face[hh_twin[x]] = Last.a

\* A face constructed on one cycle is re-initialised on another cycle of
\* three or more half hourglasses.
FaceClosureWitness ==
    /\ LastIs("initialize_half_hourglasses")
    /\ hist[1].op = "Face"
    /\ Last.pre.hh_right_face[Last.b] = None
    /\ Len(iterate_right_turns(Heap, Last.b)) >= 3
    /\ \A x \in Range(iterate_right_turns(Heap, Last.b)) : hh_right_face[x] = Last.a

-----------------------------------------------------------------------------
(* Properties of the HourglassPlabicGraph level (specification SpecG).      *)

\* The faces stored in _faces.
StoredFaces == Range(DictValues(faces))

\* No call explored so far raised.
NoneRaised == \A i \in 1..Len(hist) : hist[i].exc = ""

\* C5: face partition consistency.  After any sequence of construct_boundary,
\* create_vertex, create_hourglass, remove_hourglass and remove_vertex that
\* keeps the graph planar, every half hourglass h attached to a vertex of the
\* graph has h.right_face() stored in _faces, h is met when that face is
\* iterated from its head, h.twin().left_face() is the same face, no half
\* hourglass is on the cycle of two stored faces, and every stored face is
\* the right face of some attached half hourglass.
FacePartitionConsistent ==
    NoneRaised =>
        /\ \A h \in GraphHalfHourglasses(Heap) :
               /\ hh_right_face[h] \in StoredFaces
               /\ h \in Range(iterate_face(Heap, hh_right_face[h]))
               /\ hh_left_face[hh_twin[h]] = hh_right_face[h]
        /\ \A f1 \in StoredFaces, f2 \in StoredFaces :
               f1 # f2 => Range(iterate_face(Heap, f1)) \cap Range(iterate_face(Heap, f2)) = {}
        /\ \A f \in StoredFaces :
               \E h \in GraphHalfHourglasses(Heap) : hh_right_face[h] = f

\* C6: create_hourglass(v1, v2, m) between two vertices that are not joined,
\* followed by remove_hourglass(v1, v2), restores v1.simple_degree(),
\* v2.simple_degree() and the number of faces in _faces to their values
\* before the creation.
CreateRemoveRestores ==
    ( /\ Len(hist) = 2
      /\ hist[1].op = "create_hourglass"
      /\ hist[2].op = "remove_hourglass"
      /\ hist[2].a = hist[1].a
      /\ hist[2].b = hist[1].b
      /\ NoneRaised ) =>
        /\ simple_degree(Heap, hist[1].a) = simple_degree(hist[1].pre, hist[1].a)
        /\ simple_degree(Heap, hist[1].b) = simple_degree(hist[1].pre, hist[1].b)
        /\ Len(faces) = Len(hist[1].pre.faces)

\* C8: construct_boundary(n) on an empty graph (no vertex and no face is
\* stored), for n in 1..MaxBoundary, yields exactly n vertices, all stored as boundary vertices with the ids
\* 0..n-1 and the boundary flag set, no inner vertex, a multiplicity-0
\* hourglass from vertex i to vertex (i+1) mod n for every i, and exactly 2
\* faces in _faces, both flagged boundary.
BoundaryConstruction ==
    (LastIs("construct_boundary") /\ order(Last.pre) = 0 /\ Last.pre.faces = << >>) =>
        /\ raised = ""
        /\ order(Heap) = Last.a
        /\ inner_vertices = << >>
        /\ DictKeys(boundary_vertices) = [i \in 1..Last.a |-> i - 1]
        /\ \A i \in 0..(Last.a - 1) :
               LET v == DictGet(boundary_vertices, i)
                   hh == get_hourglass_to(Heap, v,
                                          DictGet(boundary_vertices, (i + 1) % Last.a))
               IN  /\ v_id[v] = i
                   /\ v_boundary[v]
                   /\ hh # None
                   /\ hh_multiplicity[hh] = 0
        /\ Len(faces) = 2
        /\ Cardinality(StoredFaces) = 2
        /\ \A f \in StoredFaces : f_boundary[f]

\* The largest boundary explored has been constructed on the empty graph.
BoundaryConstructionWitness ==
    /\ LastIs("construct_boundary")
    /\ order(Last.pre) = 0
    /\ Last.pre.faces = << >>
    /\ Last.a = MaxBoundary
    /\ Len(boundary_vertices) = MaxBoundary
    /\ Len(faces) = 2

-----------------------------------------------------------------------------
(* Properties of square moves (specification SpecSq).                       *)

\* The vertices around the face, [hh.v_from() for hh in face].
FaceVertices(g, face) ==
    [k \in 1..Len(iterate_face(g, face)) |-> g.hh_v_from[iterate_face(g, face)[k]]]

\* The last call was square_move(face_id, r) on a face for which
\* is_square_move_valid(face_id, r) held.
ValidSquareMove ==
    /\ LastIs("square_move")
    /\ is_square_move_valid(Last.pre, DictGet(Last.pre.faces, Last.a), Last.b)

\* What square_move(face_id, r) assumes of the graph g (r is "the valence of
\* the graph", "all vertices involved in a square move are inner vertices").
Assumed(g, face_id, r) ==
    /\ is_r_valent(g, r)
    /\ Range(FaceVertices(g, DictGet(g.faces, face_id)))
           \subseteq Range(DictValues(g.inner_vertices))

\* C9 (as amended): in a graph that is r-valent, on a face that is valid for
\* a square move with r and has only inner vertices, when get_trip_perms()
\* returns before the move, square_move(face_id, r) returns and
\* get_trip_perms() returns the same list after it.
TripPermsInvariant ==
    ( /\ ValidSquareMove
      /\ Assumed(Last.pre, Last.a, Last.b)
      /\ get_trip_perms(Last.pre).exc = "" )
    => /\ Last.exc = ""
       /\ get_trip_perms(Heap) = get_trip_perms(Last.pre)

\* square_move("face12") was called on create_test_HPG, whose three trip
\* permutations are those of tests.py.
TripPermsInvariantWitness ==
    /\ ValidSquareMove
    /\ Last.a = 12 /\ Last.b = 4
    /\ is_r_valent(Last.pre, 4)
    /\ Last.exc = ""
    /\ get_trip_perms(Last.pre).val =
           << << 1, 4, 3, 6, 5, 0, 7, 2 >>, << 3, 6, 5, 0, 7, 2, 1, 4 >>,
              << 5, 0, 7, 2, 1, 4, 3, 6 >> >>
    /\ inner_vertices # Last.pre.inner_vertices

\* C9 as the specification states it: for any graph and any face valid for a
\* square move with r, get_trip_perms() is the same before and after a
\* square_move(face_id, r) that returned.
TripPermsInvariantAnyGraph ==
    (ValidSquareMove /\ Last.exc = "")
    => get_trip_perms(Heap) = get_trip_perms(Last.pre)

\* The fill colours met around the face, from its head.
FaceFilling(g, face) ==
    [k \in 1..Len(FaceVertices(g, face)) |-> g.v_filled[FaceVertices(g, face)[k]]]

\* The sum of the multiplicities of the hourglasses of the face.
FaceMultiplicity(g, face) == SumMult(g, iterate_face(g, face), 1)

\* s and t are the same list up to the element it starts from.
SameCycle(s, t) ==
    /\ Len(s) = Len(t)
    /\ \/ Len(s) = 0
       \/ \E d \in 0..(Len(s) - 1) : \A k \in 1..Len(s) : t[k] = s[((k - 1 + d) % Len(s)) + 1]

\* The last two calls were square_move(face_id, r) with the same arguments,
\* the first of them on a face for which is_square_move_valid(face_id, r)
\* held.
TwoSquareMoves ==
    /\ Len(hist) = 2
    /\ hist[1].op = "square_move" /\ hist[2].op = "square_move"
    /\ hist[1].a = hist[2].a /\ hist[1].b = hist[2].b
    /\ is_square_move_valid(hist[1].pre, DictGet(hist[1].pre.faces, hist[1].a), hist[1].b)

\* C10, for the graphs and faces square_move is written for: in an
\* r-valent graph, on a face with inner vertices only for which
\* is_square_move_valid(r) holds, square_move(r) returns and leaves the face
\* valid for a square move; a second square_move(r) returns, leaves it valid
\* again, with the number of vertices, the fill pattern and the multiplicity
\* sum it had originally, and the original graph is_isomorphic to the graph
\* after the two moves.
SquareMoveInvolution ==
    /\ (ValidSquareMove /\ Assumed(Last.pre, Last.a, Last.b)) =>
           /\ Last.exc = ""
           /\ is_square_move_valid(Heap, DictGet(faces, Last.a), Last.b)
    /\ (TwoSquareMoves /\ Assumed(hist[1].pre, hist[1].a, hist[1].b)) =>
           LET g0 == hist[1].pre
               f0 == DictGet(g0.faces, hist[1].a)
               f == DictGet(faces, hist[1].a)
           IN  /\ Len(FaceVertices(Heap, f)) = Len(FaceVertices(g0, f0))
               /\ SameCycle(FaceFilling(g0, f0), FaceFilling(Heap, f))
               /\ FaceMultiplicity(Heap, f) = FaceMultiplicity(g0, f0)
               /\ is_isomorphic(g0, Heap) = [exc |-> "", val |-> TRUE]

FaceAlternates(g, face) ==
    \A hh \in Range(iterate_face(g, face)) :
        g.v_filled[g.hh_v_from[hh]] # g.v_filled[g.hh_v_to[hh]]

\* C12: for every face of the graph and every r, is_square_move_valid(r) is
\* True exactly when the face has 4 half hourglasses, the fill colours of
\* its vertices alternate and the multiplicities of the 4 half hourglasses
\* sum to r.
SquareMoveValidIffSquare ==
    \A face \in Range(DictValues(faces)), r \in 1..8 :
        is_square_move_valid(Heap, face, r)
            <=> /\ Len(iterate_face(Heap, face)) = 4
                /\ FaceAlternates(Heap, face)
                /\ FaceMultiplicity(Heap, face) = r

-----------------------------------------------------------------------------
(* Properties of cycle and benzene moves (specification SpecSq).            *)

\* The half hourglasses of the face in the heap g, and their twins.
FaceHourglasses(g, face) ==
    Range(iterate_face(g, face)) \cup {g.hh_twin[hh] : hh \in Range(iterate_face(g, face))}

\* The last call was benzene_move() on a face for which
\* is_benzene_move_valid() held.
ValidBenzeneMove ==
    LastIs("benzene_move") /\ is_benzene_move_valid(Last.pre, Last.a)

\* C13: on a face for which is_benzene_move_valid() holds, benzene_move()
\* returns, every half hourglass of the face and its twin goes from
\* multiplicity 1 to 2 or from 2 to 1, every other hourglass keeps its
\* multiplicity, and the face is still valid for a benzene move; a second
\* benzene_move() restores the multiplicities.
BenzeneMoveSwaps ==
    /\ ValidBenzeneMove =>
           /\ Last.exc = ""
           /\ \A hh \in 1..Len(hh_twin) :
                  hh_multiplicity[hh] =
                      IF hh \in FaceHourglasses(Last.pre, Last.a)
                      THEN 3 - Last.pre.hh_multiplicity[hh]
                      ELSE Last.pre.hh_multiplicity[hh]
           /\ \A hh \in FaceHourglasses(Last.pre, Last.a) : hh_multiplicity[hh] \in {1, 2}
           /\ is_benzene_move_valid(Heap, Last.a)
    /\ ( /\ Len(hist) = 2 /\ ValidBenzeneMove
         /\ hist[1].op = "benzene_move" /\ hist[1].a = hist[2].a )
       => hh_multiplicity = hist[1].pre.hh_multiplicity

\* The hexagon of tests.py went from 1, 2, 1, 2, 1, 2 to 2, 1, 2, 1, 2, 1
\* and back.
BenzeneMoveSwapsWitness ==
    /\ Len(hist) = 2 /\ ValidBenzeneMove
    /\ hist[1].op = "benzene_move" /\ hist[1].a = hist[2].a
    /\ [k \in 1..6 |-> hist[1].pre.hh_multiplicity[iterate_face(Heap, Last.a)[k]]]
           = << 2, 1, 2, 1, 2, 1 >>
    /\ [k \in 1..6 |-> Last.pre.hh_multiplicity[iterate_face(Heap, Last.a)[k]]]
           = << 1, 2, 1, 2, 1, 2 >>
    /\ Len(iterate_face(Heap, Last.a)) = 6
    /\ hh_multiplicity = hist[1].pre.hh_multiplicity

\* The multiplicities around the face alternate strictly between 1 and 2.
AlternatesOneTwo(g, face) ==
    LET hhs == iterate_face(g, face)
    IN  \A k \in 1..Len(hhs) :
            /\ g.hh_multiplicity[hhs[k]] \in {1, 2}
            /\ g.hh_multiplicity[hhs[(k % Len(hhs)) + 1]] = 3 - g.hh_multiplicity[hhs[k]]

\* C14: for every face of the graph, is_benzene_move_valid() is True exactly
\* when the face has an even number of half hourglasses, the fill colours of
\* its vertices alternate and the multiplicities around it alternate
\* strictly between 1 and 2.
BenzeneValidIffAlternating ==
    \A face \in Range(DictValues(faces)) :
        is_benzene_move_valid(Heap, face)
            <=> /\ Len(iterate_face(Heap, face)) % 2 = 0
                /\ FaceAlternates(Heap, face)
                /\ AlternatesOneTwo(Heap, face)

\* After a benzene move the face of six half hourglasses moved is one for
\* which is_benzene_move_valid() is True, with a head of two strands.
BenzeneValidIffAlternatingWitness ==
    /\ LastIs("benzene_move")
    /\ is_benzene_move_valid(Heap, Last.a)
    /\ Len(iterate_face(Heap, Last.a)) = 6
    /\ strand_count(Heap, f_half_hourglasses_head[Last.a]) = 2
    /\ AlternatesOneTwo(Heap, Last.a)

\* A face of even length and alternating fill colours for which
\* is_benzene_move_valid() is False because of its multiplicities.
BenzeneInvalidByMultiplicity ==
    \E face \in Range(DictValues(faces)) :
        /\ ~ is_benzene_move_valid(Heap, face)
        /\ Len(iterate_face(Heap, face)) % 2 = 0
        /\ FaceAlternates(Heap, face)

\* The half hourglasses at the even offsets from h along the face (h, then
\* every second one) in the heap g; h is one of the face's half hourglasses.
EvenOffsets(g, face, h) ==
    LET hhs == iterate_face(g, face)
        p == CHOOSE k \in 1..Len(hhs) : hhs[k] = h
    IN  {hhs[((p - 1 + 2 * j) % Len(hhs)) + 1] : j \in 0..((Len(hhs) - 1) \div 2)}

\* The half hourglasses of the face that are not at an even offset from h.
OddOffsets(g, face, h) == Range(iterate_face(g, face)) \ EvenOffsets(g, face, h)

\* The half hourglass is_cycle_valid() and cycle() start from when given h:
\* h when the face is on its right, else its twin.
OwnStart(g, face, h) == IF g.hh_right_face[h] = face THEN h ELSE g.hh_twin[h]

\* The half hourglasses of the graph that have the face on their right are
\* the ones the face lists from its head, as make_faces() leaves them.
WellFormedFace(g, face) ==
    LET own == Range(iterate_face(g, face))
    IN  \A hh \in GraphHalfHourglasses(g) : g.hh_right_face[hh] = face <=> hh \in own

\* C15: for every face of the graph whose half hourglasses are the ones that
\* have it on their right, and every half hourglass start_hh of the graph,
\* is_cycle_valid(start_hh) raises ValueError when start_hh has the face on
\* neither side; otherwise, with start_hh replaced by its twin when it runs
\* in the opposite direction, it is True exactly when the face has an even
\* number of half hourglasses, the fill colours of its vertices alternate
\* and every half hourglass at an even offset from start_hh has multiplicity
\* greater than 1.
CycleValidIffEvenOffsetsThick ==
    \A face \in Range(DictValues(faces)) :
        WellFormedFace(Heap, face) =>
            LET hhs == iterate_face(Heap, face)
                shape == Len(hhs) % 2 = 0 /\ FaceAlternates(Heap, face)
            IN  \A start_hh \in GraphHalfHourglasses(Heap) :
                    IF hh_right_face[start_hh] # face /\ hh_left_face[start_hh] # face
                    THEN is_cycle_valid(Heap, face, start_hh, FALSE).exc = "ValueError"
                    ELSE /\ OwnStart(Heap, face, start_hh) \in Range(hhs)
                         /\ is_cycle_valid(Heap, face, start_hh, FALSE) =
                                [exc |-> "",
                                 val |-> /\ shape
                                         /\ \A hh \in EvenOffsets(Heap, face,
                                                        OwnStart(Heap, face, start_hh)) :
                                                hh_multiplicity[hh] > 1]

\* After a move, a face has a half hourglass given in the opposite direction
\* for which is_cycle_valid() is True, one in its own direction for which it
\* is False although the face is even and its fill colours alternate, and the
\* graph has a half hourglass for which it raises ValueError.
CycleValidIffEvenOffsetsThickWitness ==
    /\ Len(hist) > 0
    /\ \E face \in Range(DictValues(faces)) :
           /\ WellFormedFace(Heap, face)
           /\ \E hh \in GraphHalfHourglasses(Heap) :
                  /\ hh_right_face[hh] # face /\ hh_left_face[hh] = face
                  /\ is_cycle_valid(Heap, face, hh, FALSE) = [exc |-> "", val |-> TRUE]
           /\ \E hh \in GraphHalfHourglasses(Heap) :
                  /\ hh_right_face[hh] = face
                  /\ is_cycle_valid(Heap, face, hh, FALSE) = [exc |-> "", val |-> FALSE]
                  /\ Len(iterate_face(Heap, face)) % 2 = 0
                  /\ FaceAlternates(Heap, face)
           /\ \E hh \in GraphHalfHourglasses(Heap) :
                  is_cycle_valid(Heap, face, hh, FALSE).exc = "ValueError"

\* The last call was cycle(start_hh) on a face whose half hourglasses are
\* the ones that have it on their right and for which
\* is_cycle_valid(start_hh) held.
ValidCycle ==
    /\ LastIs("cycle") /\ Last.c = FALSE
    /\ WellFormedFace(Last.pre, Last.a)
    /\ is_cycle_valid(Last.pre, Last.a, Last.b, FALSE) = [exc |-> "", val |-> TRUE]

\* C16: on a face for which is_cycle_valid(h) holds, cycle(h) returns, every
\* half hourglass at an even offset from h loses one strand and every one
\* at an odd offset gains one (with their twins), every other hourglass
\* keeps its multiplicity, no hourglass drops to multiplicity 0, and the
\* total degree of every vertex of the face is unchanged.
CycleShiftsStrands ==
    ValidCycle =>
        LET g0 == Last.pre
            own == OwnStart(g0, Last.a, Last.b)
            even == EvenOffsets(g0, Last.a, own)
            odd == OddOffsets(g0, Last.a, own)
            Change(hh) == IF hh \in even \/ g0.hh_twin[hh] \in even THEN 0 - 1
                          ELSE IF hh \in odd \/ g0.hh_twin[hh] \in odd THEN 1 ELSE 0
        IN  /\ Last.exc = ""
            /\ \A hh \in 1..Len(g0.hh_twin) :
                   /\ hh_multiplicity[hh] = g0.hh_multiplicity[hh] + Change(hh)
                   /\ g0.hh_multiplicity[hh] > 0 => hh_multiplicity[hh] > 0
            /\ \A v \in Range(FaceVertices(g0, Last.a)) :
                   total_degree(Heap, v) = total_degree(g0, v)

-----------------------------------------------------------------------------
(* Properties of trips (specification SpecSq).                              *)

\* The trip indices the properties are checked for.
TripIndices == 1..4

\* The half strands of the hourglasses of the graph in the heap g.
GraphStrands(g) == UNION {Range(iterate_strands(g, hh)) : hh \in GraphHalfHourglasses(g)}

\* v_from() and v_to() of a half strand.
StrandFrom(g, s) == g.hh_v_from[g.hs_hourglass[s]]
StrandTo(g, s) == g.hh_v_to[g.hs_hourglass[s]]

\* Following the i-th trip turns from s leads to a boundary vertex.
ReachesBoundary(g, s, i) == g.v_boundary[StrandTo(g, TripEnd(g, s, i, Len(g.hs_twin)))]

\* C17: for every strand s whose trip i reaches the boundary, s.get_trip(i)
\* contains s, starts with a strand that leaves a boundary vertex, ends with
\* the only one of its strands that enters a boundary vertex, each strand
\* after the first is get_ith_trip_turn(i) of the one before, and it is the
\* list get_trip(i) returns for its first strand.
GetTripIsWholeTrip ==
    \A s \in GraphStrands(Heap), i \in TripIndices :
        ReachesBoundary(Heap, s, i) =>
            LET trip == get_trip(Heap, s, i)
            IN  /\ s \in Range(trip)
                /\ v_boundary[StrandFrom(Heap, trip[1])]
                /\ \A k \in 1..Len(trip) : v_boundary[StrandTo(Heap, trip[k])] <=> k = Len(trip)
                /\ \A k \in 2..Len(trip) : trip[k] = get_ith_trip_turn(Heap, trip[k - 1], i)
                /\ trip = get_trip(Heap, trip[1], i)

\* After a move, a strand between two inner vertices has a trip of four or
\* more strands in which it is neither the first nor the last.
GetTripIsWholeTripWitness ==
    /\ Len(hist) > 0 /\ Last.exc = ""
    /\ \E s \in GraphStrands(Heap), i \in TripIndices :
           /\ ReachesBoundary(Heap, s, i)
           /\ ~ v_boundary[StrandFrom(Heap, s)] /\ ~ v_boundary[StrandTo(Heap, s)]
           /\ Len(get_trip(Heap, s, i)) >= 4
           /\ get_trip(Heap, s, i)[1] # s
           /\ get_trip(Heap, s, i) = get_trip(Heap, get_trip(Heap, s, i)[1], i)

\* Every boundary vertex of the graph has total degree 1.
BoundaryDegreeOne ==
    \A v \in Range(DictValues(boundary_vertices)) : total_degree(Heap, v) = 1

\* C18: when every boundary vertex has total degree 1, get_trip_perm(i) has
\* one entry per boundary vertex, every entry is the id of a boundary
\* vertex, and no id occurs twice.
TripPermIsPermutation ==
    BoundaryDegreeOne =>
        \A i \in TripIndices :
            LET perm == get_trip_perm(Heap, i)
            IN  /\ Len(perm) = Len(boundary_vertices)
                /\ \A k \in 1..Len(perm) : perm[k] \in Range(DictKeys(boundary_vertices))
                /\ \A j, k \in 1..Len(perm) : perm[j] = perm[k] => j = k

\* After a square move, the graph has eight boundary vertices of total
\* degree 1 and the first trip permutation moves every one of them.
TripPermIsPermutationWitness ==
    /\ LastIs("square_move") /\ Last.exc = ""
    /\ BoundaryDegreeOne
    /\ Len(boundary_vertices) = 8
    /\ \A k \in 1..8 : get_trip_perm(Heap, 1)[k] # boundary_vertices[k].k
    /\ Range(get_trip_perm(Heap, 1)) = Range(DictKeys(boundary_vertices))

-----------------------------------------------------------------------------
(* Properties of is_fully_reduced (specification SpecSq).                   *)

\* The valences is_fully_reduced is checked for.
ReducedValences == 2..5

\* The number of i-th trip turns after which the strand s is met again, 0
\* when it is not met again within fuel turns.
RECURSIVE TripPeriod(_, _, _, _, _)
TripPeriod(g, s, cur, i, fuel) ==
    IF fuel = 0 THEN 0
    ELSE IF get_ith_trip_turn(g, cur, i) = s THEN 1
    ELSE LET rest == TripPeriod(g, s, get_ith_trip_turn(g, cur, i), i, fuel - 1)
         IN  IF rest = 0 THEN 0 ELSE rest + 1

\* The strand s lies on an isolated trip i of more than two strands.
OnIsolatedTrip(g, s, i) ==
    /\ ~ ReachesBoundary(g, s, i)
    /\ TripPeriod(g, s, s, i, Len(g.hs_twin)) > 2

\* The vertices on the trip i from the boundary vertex v, the first one
\* included.
TripVertices(g, v, i) ==
    LET trip == Vertex_get_trip(g, v, i).val
    IN  << StrandFrom(g, trip[1]) >> \o [k \in 1..Len(trip) |-> StrandTo(g, trip[k])]

\* C20: when is_fully_reduced(r) returns True, every inner vertex has total
\* degree r, no half strand of an hourglass at an inner vertex lies on an
\* isolated trip i of more than two strands for i in 1..r-1, and no trip i
\* from a boundary vertex meets a vertex twice.
FullyReducedOnlyIf ==
    \A r \in ReducedValences :
        is_fully_reduced(Heap, r) = [exc |-> "", val |-> TRUE] =>
            /\ \A v \in Range(DictValues(inner_vertices)) : total_degree(Heap, v) = r
            /\ \A v \in Range(DictValues(inner_vertices)) :
                   \A hh \in Range(iterate_vertex(Heap, v)) :
                       \A s \in Range(iterate_strands(Heap, hh))
                                  \cup Range(iterate_strands(Heap, hh_twin[hh])) :
                           \A i \in 1..(r - 1) : ~ OnIsolatedTrip(Heap, s, i)
            /\ \A v \in Range(DictValues(boundary_vertices)), i \in 1..(r - 1) :
                   Cardinality(Range(TripVertices(Heap, v, i)))
                       = Len(TripVertices(Heap, v, i))

\* After a square move, is_fully_reduced(4) is True on a graph with eight
\* boundary vertices whose trips pass through inner vertices.
FullyReducedOnlyIfWitness ==
    /\ LastIs("square_move") /\ Last.exc = ""
    /\ is_fully_reduced(Heap, 4) = [exc |-> "", val |-> TRUE]
    /\ Len(boundary_vertices) = 8
    /\ \E k \in 1..8 : Len(TripVertices(Heap, boundary_vertices[k].v, 2)) >= 4

\* is_fully_reduced(r) is False on an r-valent graph because of an isolated
\* trip.
FullyReducedIsolatedFalse ==
    \E r \in ReducedValences :
        /\ is_r_valent(Heap, r) /\ inner_vertices # << >>
        /\ is_fully_reduced(Heap, r) = [exc |-> "", val |-> FALSE]
        /\ \E s \in GraphStrands(Heap), i \in 1..(r - 1) : OnIsolatedTrip(Heap, s, i)

-----------------------------------------------------------------------------
(* Properties of Vertex.get_trip (specification SpecSq).                    *)

\* The half strands that leave the vertex v.
StrandsFrom(g, v) == {s \in GraphStrands(g) : StrandFrom(g, s) = v}

\* Vertex.get_trip(i) raises NotImplementedError at every vertex whose total
\* degree is not 1, and at a vertex of total degree 1, which has hourglasses
\* without strands when it is on the boundary, it returns get_trip(i) of the
\* one strand that leaves the vertex.
VertexGetTrip ==
    \A v \in GraphVertices(Heap), i \in TripIndices :
        IF total_degree(Heap, v) # 1
        THEN Vertex_get_trip(Heap, v, i).exc = "NotImplementedError"
        ELSE /\ Cardinality(StrandsFrom(Heap, v)) = 1
             /\ \A s \in StrandsFrom(Heap, v) :
                    Vertex_get_trip(Heap, v, i) = [exc |-> "", val |-> get_trip(Heap, s, i)]

\* The graph is r-valent and has a boundary vertex whose total degree is
\* not 1.
ValentWithWideBoundary(r) ==
    /\ is_r_valent(Heap, r)
    /\ \E v \in Range(DictValues(boundary_vertices)) : total_degree(Heap, v) # 1

\* C19 as stated: Vertex.get_trip(i) raises NotImplementedError unless the
\* total degree is 1, when it returns the trip of the one strand leaving the
\* vertex, and is_fully_reduced(r) raises NotImplementedError on every
\* r-valent graph with a boundary vertex whose total degree is not 1.
VertexGetTripAlwaysRaised ==
    /\ VertexGetTrip
    /\ \A r \in ReducedValences :
           ValentWithWideBoundary(r) => is_fully_reduced(Heap, r).exc = "NotImplementedError"

\* C19, amended: Vertex.get_trip(i) raises NotImplementedError unless the
\* total degree is 1, when it returns the trip of the one strand leaving the
\* vertex, and on an r-valent graph with a boundary vertex whose total
\* degree is not 1 is_fully_reduced(r) raises NotImplementedError unless a
\* strand lies on an isolated trip of more than two strands, when it
\* returns False.
VertexGetTripRaisedAfterIsolated ==
    /\ VertexGetTrip
    /\ \A r \in ReducedValences :
           ValentWithWideBoundary(r) =>
               IF \E s \in GraphStrands(Heap), i \in 1..(r - 1) : OnIsolatedTrip(Heap, s, i)
               THEN is_fully_reduced(Heap, r) = [exc |-> "", val |-> FALSE]
               ELSE is_fully_reduced(Heap, r).exc = "NotImplementedError"

\* After a move, a boundary vertex of total degree 2 makes get_trip and
\* is_fully_reduced(5) raise NotImplementedError, and a boundary vertex of
\* total degree 1 with two hourglasses without strands has a trip of three
\* or more strands.
VertexGetTripRaisedAfterIsolatedWitness ==
    /\ Len(hist) > 0
    /\ ValentWithWideBoundary(5)
    /\ is_fully_reduced(Heap, 5).exc = "NotImplementedError"
    /\ \E v \in Range(DictValues(boundary_vertices)) :
           /\ total_degree(Heap, v) = 2
           /\ Vertex_get_trip(Heap, v, 1).exc = "NotImplementedError"
    /\ \E v \in Range(DictValues(boundary_vertices)) :
           /\ total_degree(Heap, v) = 1
           /\ simple_degree(Heap, v) = 3
           /\ Len(Vertex_get_trip(Heap, v, 1).val) >= 3

-----------------------------------------------------------------------------
(* Properties of is_isomorphic.                                            *)

\* The graphs of SquareSetups, each built anew.
BuiltGraphs == [k \in 1..Len(SquareSetups) |-> Build(EmptyHeap, SquareSetups[k], 1)]

\* traverse() returns its four lists for the graph g.
Traversable(g) == traverse(g).exc = ""

\* The graph g with the vertex v created with the other fill colour.
OtherFilling(g, v) == [g EXCEPT !.v_filled[v] = ~ @]

\* The last call was thicken_hourglass or thin_hourglass, it returned, and
\* traverse() visits the hourglass whose multiplicity it changed.
MultiplicityChanged ==
    /\ LastIs("thicken_hourglass") \/ LastIs("thin_hourglass")
    /\ Last.exc = ""
    /\ Traversable(Heap)
    /\ get_hourglass_to(Heap, Last.a, Last.b) \in Range(traverse(Heap).hh_visited)

-----------------------------------------------------------------------------
(* Properties of the calls with an argument that is not in the graph       *)
(* (specification SpecG).                                                   *)

\* The last call was given a vertex id that no vertex of the graph has, two
\* vertices with no hourglass between them, or a face id that no face has.
UnknownId ==
    /\ Len(hist) > 0
    /\ \/ LastIs("remove_vertex_by_id") /\ get_vertex(Last.pre, Last.a) = None
       \/ LastIs("remove_hourglass") /\ get_hourglass_to(Last.pre, Last.a, Last.b) = None
       \/ /\ Last.op \in {"remove_hourglass_by_id", "thicken_hourglass_by_id",
                          "thin_hourglass_by_id"}
          /\ get_hourglass_by_id(Last.pre, Last.a, Last.b) = None
       \/ /\ Last.op \in {"square_move", "benzene_move", "cycle"}
          /\ ~ DictHas(Last.pre.faces, Last.a)

\* The last call was remove_vertex(del_vertex) with a Vertex that is not a
\* vertex of the graph.
UnknownVertex == LastIs("remove_vertex") /\ Last.a \notin GraphVertices(Last.pre)

\* The call raised ValueError and changed nothing.
RaisedBeforeMutation == Last.exc = "ValueError" /\ Heap = Last.pre

\* C22: remove_vertex for a vertex that is not in the graph,
\* remove_vertex_by_id for an unknown id, remove_hourglass(_by_id),
\* thicken_hourglass_by_id and thin_hourglass_by_id for an unknown vertex id
\* or for two vertices with no hourglass between them, and square_move,
\* benzene_move and cycle with an unknown face id raise ValueError and leave
\* the vertex maps, the face map, every rotation list and everything else
\* as it was.
PreconditionsRaise == (UnknownId \/ UnknownVertex) => RaisedBeforeMutation

\* C22 without remove_vertex(del_vertex): the calls by id and
\* remove_hourglass raise ValueError and change nothing.
PreconditionsRaiseById == UnknownId => RaisedBeforeMutation

\* C22 for remove_vertex(del_vertex) when no vertex of the graph has the id
\* of del_vertex.
PreconditionsRaiseUnknownVertexId ==
    (UnknownVertex /\ get_vertex(Last.pre, Last.pre.v_id[Last.a]) = None) =>
        RaisedBeforeMutation

-----------------------------------------------------------------------------
(* Properties of the circular lists (specification Spec).                   *)

\* The sequence s from its last element to its first.
Reverse(s) == [k \in 1..Len(s) |-> s[Len(s) + 1 - k]]

\* The half strands of all half hourglasses.
HalfStrands == 1..Len(hs_twin)

\* The two iterations from e over the list linked by cw and ccw: the
\* counterclockwise one is e followed by the clockwise one, without e, in
\* reverse; following cw as often as the list is long leads back to e.
MirrorIterations(cw, ccw, e) ==
    /\ Iterate(ccw, e) = << e >> \o Reverse(Tail(Iterate(cw, e)))
    /\ get_ith_element(cw, e, Len(Iterate(cw, e))) = e

\* C23 as stated: the clockwise and the counterclockwise iteration from the
\* same element of a rotation list are exact reverses of each other.
IterationsExactReverses ==
    \A v \in Vertices(Heap) : \A hh \in Range(iterate_vertex(Heap, v)) :
        iterate_hh_counterclockwise(Heap, hh) = Reverse(iterate_hh_clockwise(Heap, hh))

\* C23, amended: for every vertex v and every half hourglass hh of its
\* rotation list, iterating counterclockwise from hh yields hh and then the
\* rest of the clockwise iteration from hh in reverse order (the two are
\* reverses of each other as cyclic sequences), and stepping clockwise
\* simple_degree() times from hh returns to hh; the same holds for the list
\* of half strands around every half strand.
RotationInvariant ==
    /\ \A v \in Vertices(Heap) : \A hh \in Range(iterate_vertex(Heap, v)) :
           /\ MirrorIterations(hh_cw_next, hh_ccw_next, hh)
           /\ get_ith_element(hh_cw_next, hh, simple_degree(Heap, v)) = hh
    /\ \A s \in HalfStrands : MirrorIterations(hs_cw_next, hs_ccw_next, s)

\* A vertex with three hourglasses after a call that returned, where the
\* two iterations from its head differ and are not reverses of each other.
RotationInvariantWitness ==
    /\ Len(hist) > 0 /\ Last.exc = ""
    /\ \E v \in Vertices(Heap) :
           /\ simple_degree(Heap, v) = 3
           /\ iterate_hh_clockwise(Heap, v_half_hourglasses_head[v])
                  # iterate_hh_counterclockwise(Heap, v_half_hourglasses_head[v])
           /\ iterate_hh_counterclockwise(Heap, v_half_hourglasses_head[v])
                  # Reverse(iterate_hh_clockwise(Heap, v_half_hourglasses_head[v]))
    /\ \E s \in HalfStrands : Len(Iterate(hs_cw_next, s)) >= 4

\* Every element x of X has x.cw_next().ccw_next() is x and
\* x.ccw_next().cw_next() is x.
LinksInverse(L, X) == \A x \in X : L.ccw[L.cw[x]] = x /\ L.cw[L.ccw[x]] = x

\* The element e is a list of its own.
Singleton(L, e) == L.cw[e] = e /\ L.ccw[e] = e

\* L2 and L agree on the links of every element outside S.
SameLinksOutside(L2, L, S, X) ==
    \A y \in X \ S : L2.cw[y] = L.cw[y] /\ L2.ccw[y] = L.ccw[y]

\* Right after a.insert_cw_next(e) and a.insert_ccw_next(e) for a singleton
\* e: e is the neighbour of a on that side, the list of a continues as
\* before, and no other list changes.
InsertedNextTo(L, X, a, e) ==
    LET N == D_insert_cw_next(L, a, e)
        M == D_insert_ccw_next(L, a, e)
        around == Range(Iterate(L.cw, a)) \cup {e}
    IN  /\ N.cw[a] = e /\ N.ccw[e] = a
        /\ Iterate(N.cw, a) = << a, e >> \o Tail(Iterate(L.cw, a))
        /\ LinksInverse(N, X) /\ SameLinksOutside(N, L, around, X)
        /\ M.ccw[a] = e /\ M.cw[e] = a
        /\ Iterate(M.ccw, a) = << a, e >> \o Tail(Iterate(L.ccw, a))
        /\ LinksInverse(M, X) /\ SameLinksOutside(M, L, around, X)

\* Right after x.remove(): x is a singleton, the other elements of its list
\* keep their order, no other list changes; nothing changes when x was a
\* singleton.
RemovedFrom(L, X, x) ==
    LET N == D_remove(L, x)
    IN  /\ Singleton(N, x)
        /\ LinksInverse(N, X)
        /\ SameLinksOutside(N, L, Range(Iterate(L.cw, x)), X)
        /\ ~ Singleton(L, x) =>
               /\ Iterate(N.cw, L.cw[x]) = Tail(Iterate(L.cw, x))
               /\ Iterate(N.ccw, L.ccw[x]) = Tail(Iterate(L.ccw, x))
        /\ Singleton(L, x) => N = L

\* C24: in every state reached by the calls of Spec, which insert and
\* remove half hourglasses and half strands, every element x has
\* x.cw_next().ccw_next() is x and x.ccw_next().cw_next() is x; for every
\* element a and every singleton e, right after a.insert_cw_next(e) (resp.
\* insert_ccw_next) e is the clockwise (resp. counterclockwise) neighbour of
\* a and the cyclic order of the others is unchanged; right after
\* x.remove() x is a singleton, the remaining elements keep their cyclic
\* order, and remove on a singleton changes nothing.
DihedralListLinks ==
    /\ LinksInverse(HHLinks(Heap), HalfHourglasses)
    /\ LinksInverse(HSLinks(Heap), HalfStrands)
    /\ \A a \in HalfHourglasses, e \in HalfHourglasses :
           (e # a /\ Singleton(HHLinks(Heap), e)) =>
               InsertedNextTo(HHLinks(Heap), HalfHourglasses, a, e)
    /\ \A x \in HalfHourglasses : RemovedFrom(HHLinks(Heap), HalfHourglasses, x)
    /\ \A x \in HalfStrands : RemovedFrom(HSLinks(Heap), HalfStrands, x)

\* After a remove_hourglass_between that returned: a rotation list of three
\* half hourglasses, and a removed half hourglass that is a singleton.
DihedralListLinksWitness ==
    /\ LastIs("remove_hourglass_between") /\ Last.exc = ""
    /\ \E a \in HalfHourglasses, e \in HalfHourglasses \ Attached(Heap) :
           /\ Len(Iterate(hh_cw_next, a)) = 3
           /\ Singleton(HHLinks(Heap), e)
           /\ Len(Iterate(D_insert_cw_next(HHLinks(Heap), a, e).cw, a)) = 4
           /\ Len(Iterate(D_remove(HHLinks(Heap), a).cw, hh_cw_next[a])) = 2

\* The sequence list holds every element of the circle of e exactly once,
\* beginning with e and continuing along next.
WholeCircleFrom(next, e, list) ==
    /\ Len(list) >= 1 /\ list[1] = e
    /\ \A k \in 1..(Len(list) - 1) : list[k + 1] = next[list[k]]
    /\ next[list[Len(list)]] = e
    /\ \A j \in 1..Len(list), k \in 1..Len(list) : list[j] = list[k] => j = k

\* C25 for clockwise = True: get_elements_as_list(True) returns all
\* elements of the circle exactly once, starting at self, in clockwise
\* order, and its length is get_num_elements().
ElementsAsListClockwise ==
    /\ \A hh \in HalfHourglasses :
           LET answer == get_elements_as_list(HHLinks(Heap), hh, TRUE)
           IN  /\ ~ answer.none
               /\ WholeCircleFrom(hh_cw_next, hh, answer.list)
               /\ Len(answer.list) = get_num_elements(HHLinks(Heap), hh)
    /\ \A s \in HalfStrands :
           LET answer == get_elements_as_list(HSLinks(Heap), s, TRUE)
           IN  /\ ~ answer.none
               /\ WholeCircleFrom(hs_cw_next, s, answer.list)
               /\ Len(answer.list) = get_num_elements(HSLinks(Heap), s)

\* C25: get_elements_as_list(clockwise) returns all elements of the circle
\* exactly once starting at self, in clockwise order when clockwise is True
\* and in counterclockwise order when clockwise is False, and its length
\* equals get_num_elements().
ElementsAsList ==
    /\ ElementsAsListClockwise
    /\ \A hh \in HalfHourglasses :
           LET answer == get_elements_as_list(HHLinks(Heap), hh, FALSE)
           IN  /\ ~ answer.none
               /\ WholeCircleFrom(hh_ccw_next, hh, answer.list)
               /\ Len(answer.list) = get_num_elements(HHLinks(Heap), hh)

-----------------------------------------------------------------------------
(* Properties of the validity checks (specification SpecG).                 *)

\* The last call was one of the validity checks.
ValidityChecked ==
    /\ Len(hist) > 0
    /\ Last.op \in {"is_square_move_valid", "is_square_move4_valid",
                    "is_cycle_valid", "is_benzene_move_valid"}

\* C26: is_square_move_valid(face_id, r), is_square_move4_valid(),
\* is_benzene_move_valid(face_id) and is_cycle_valid(face_id, v1_id, v2_id)
\* leave every vertex, rotation list, multiplicity, strand list, face head
\* and face and vertex map unchanged, whether they return True, return
\* False or raise ValueError.
ValidityChecksPure ==
    ValidityChecked => (Heap = Last.pre /\ Last.exc \in {"", "ValueError"})

\* is_benzene_move_valid has returned True after is_square_move_valid
\* returned False.
ValidityChecksPureWitness ==
    /\ Len(hist) = 2
    /\ hist[1].op = "is_square_move_valid" /\ hist[1].exc = "" /\ hist[1].c = FALSE
    /\ hist[2].op = "is_benzene_move_valid" /\ hist[2].exc = "" /\ hist[2].b = TRUE
    /\ Len(hh_twin) > 0

-----------------------------------------------------------------------------
(* is_fully_reduced on trees (specification SpecTr), and properties of     *)
(* validate_crossing.                                                       *)

\* A 4-valent tree, built as tests.py builds its graphs: the vertex 10 is
\* joined to the boundary vertices 3 and 7 and to the vertices 11 and 12,
\* which are joined to three boundary vertices each.  filled gives the fill
\* colours of the vertices 10, 11 and 12.
TreeSetup(filled) ==
    << << "construct_boundary",
          << 8, << TRUE, TRUE, TRUE, FALSE, TRUE, TRUE, TRUE, FALSE >> >> >>,
       << "create_vertex", << 10, 0, 0, filled[1], FALSE, FALSE >> >>,
       << "create_vertex", << 11, 6, 2, filled[2], FALSE, FALSE >> >>,
       << "create_vertex", << 12, -6, -2, filled[3], FALSE, FALSE >> >>,
       << "create_hourglass", << 9, 10, 1 >> >>,
       << "create_hourglass", << 9, 11, 1 >> >>,
       << "create_hourglass", << 9, 4, 1 >> >>,
       << "create_hourglass", << 9, 8, 1 >> >>,
       << "create_hourglass", << 10, 1, 1 >> >>,
       << "create_hourglass", << 10, 2, 1 >> >>,
       << "create_hourglass", << 10, 3, 1 >> >>,
       << "create_hourglass", << 11, 5, 1 >> >>,
       << "create_hourglass", << 11, 6, 1 >> >>,
       << "create_hourglass", << 11, 7, 1 >> >> >>

InitTr ==
    /\ \E filled \in [1..3 -> BOOLEAN] : StateIs(Build(EmptyHeap, TreeSetup(filled), 1))
    /\ hist = << >>
    /\ ops = 0

\* is_fully_reduced(r); the value returned is recorded.
IsFullyReduced ==
    \E r \in ReducedValences :
        /\ CanCall
        /\ Becomes(Raise(Heap, is_fully_reduced(Heap, r).exc))
        /\ Record(Invocation("is_fully_reduced", r, is_fully_reduced(Heap, r).val, 0))

NextTr == IsFullyReduced

SpecTr == InitTr /\ [][NextTr]_vars


\* is_fully_reduced(r) returns True, after it has searched every pair of
\* boundary trips for a double crossing.
TripsCompared(g, r) ==
    /\ is_r_valent(g, r)
    /\ \A v \in Range(DictValues(g.boundary_vertices)) : total_degree(g, v) = 1
    /\ is_fully_reduced(g, r) = [exc |-> "", val |-> TRUE]

\* The pairs of boundary trips that is_fully_reduced(r) compares.
ComparedTrips(g, r) ==
    LET boundary == DictValues(g.boundary_vertices)
        trip(i, k) == Vertex_get_trip(g, boundary[k], i).val
        compared(i, b) ==
            IF b <= Len(boundary) THEN trip(i, b) ELSE trip(i + 1, b - Len(boundary))
    IN  {<< trip(p[1], p[2]), compared(p[1], p[3]) >> :
            p \in {q \in (1..(r - 1)) \X (1..Len(boundary)) \X (1..(2 * Len(boundary))) :
                      /\ q[2] < q[3]
                      /\ q[3] > Len(boundary) => q[1] < r - 1}}

\* The positions (counted from 0) at which the two trips enter the same
\* vertex.
Meetings(g, trip1, trip2) ==
    {c \in (0..(Len(trip1) - 2)) \X (0..(Len(trip2) - 2)) :
        StrandTo(g, trip1[c[1] + 1]) = StrandTo(g, trip2[c[2] + 1])}

\* The position that find_crossing_from(trip1, 0, trip2, 0) hands to
\* validate_crossing first, when it is a coincidence at exactly one interior
\* vertex: the trips come from different vertices and go on to different
\* vertices, neither starts or ends there, and the four strands by which
\* they come and go are distinct.
SingleCoincidences(g, trip1, trip2) ==
    LET to(s) == StrandTo(g, s)
        meetings == Meetings(g, trip1, trip2)
    IN  {c \in meetings :
            /\ \A d \in meetings : c[1] < d[1] \/ (c[1] = d[1] /\ c[2] <= d[2])
            /\ c[1] > 0 /\ c[2] > 0
            /\ to(trip1[c[1]]) # to(trip2[c[2]])
            /\ to(trip1[c[1] + 2]) # to(trip2[c[2] + 2])
            /\ Cardinality({g.hs_twin[trip1[c[1] + 1]], trip1[c[1] + 2],
                            g.hs_twin[trip2[c[2] + 1]], trip2[c[2] + 2]}) = 4}

\* The strands of the two trips at the vertex alternate in the rotation
\* order: going clockwise from the strand by which trip 1 comes in, exactly
\* one strand of trip 2 is met before the strand by which trip 1 leaves.
Alternate(g, trip1, ind1, trip2, ind2) ==
    LET inhh1 == g.hs_twin[trip1[ind1 + 1]]
        inhh2 == g.hs_twin[trip2[ind2 + 1]]
        outhh1 == trip1[ind1 + 2]
        outhh2 == trip2[ind2 + 2]
        around == Iterate(g.hs_cw_next, inhh1)
        pos(s) == CHOOSE k \in 1..Len(around) : around[k] = s
    IN  (pos(inhh2) < pos(outhh1)) # (pos(outhh2) < pos(outhh1))

\* C27: when two boundary trips compared by is_fully_reduced(r) meet at
\* exactly one interior vertex, validate_crossing returns 1 if the strands
\* of the two trips alternate around the vertex and -1, so that the
\* coincidence is not counted, if they do not.
CrossingsAlternate ==
    \A r \in ReducedValences :
        TripsCompared(Heap, r) =>
            \A pair \in ComparedTrips(Heap, r) :
                \A c \in SingleCoincidences(Heap, pair[1], pair[2]) :
                    validate_crossing(Heap, pair[1], c[1], pair[2], c[2]) =
                        [exc |-> "",
                         val |-> IF Alternate(Heap, pair[1], c[1], pair[2], c[2])
                                 THEN 1 ELSE 0 - 1]

-----------------------------------------------------------------------------
(* Properties of HourglassPlabicGraph.square_move (specification SpecSq).   *)

\* The corners of the face that Face.square_move contracts: those of simple
\* degree 3 or less.
Contracted(g, face) == {v \in Range(FaceVertices(g, face)) : simple_degree(g, v) <= 3}

\* The vertices constructed since the heap was g.
Created(g) == (Len(g.v_id) + 1)..Len(v_id)

\* Since the heap was g, _inner_vertices gained the constructed vertices,
\* each under its id, lost the contracted corners of the face, and kept its
\* other entries.
VerticesUpdated(g, face) ==
    /\ Range(DictValues(inner_vertices)) =
           (Range(DictValues(g.inner_vertices)) \cup Created(g)) \ Contracted(g, face)
    /\ \A k \in 1..Len(inner_vertices) : v_id[inner_vertices[k].v] = inner_vertices[k].k
    /\ \A j, k \in 1..Len(inner_vertices) :
           inner_vertices[j].k = inner_vertices[k].k => j = k

\* Every half hourglass attached to a vertex of the graph has a right face
\* that is stored in _faces and meets it on the cycle from its head, and the
\* head of every stored face is attached to a vertex of the graph.
FacesConsistent ==
    /\ \A h \in GraphHalfHourglasses(Heap) :
           /\ hh_right_face[h] \in StoredFaces
           /\ h \in Range(iterate_face(Heap, hh_right_face[h]))
    /\ \A f \in StoredFaces : f_half_hourglasses_head[f] \in GraphHalfHourglasses(Heap)

\* What the claim says of the state after square_move(face_id, r).
SquareMoveDone ==
    /\ Last.exc = ""
    /\ DictKeys(faces) = DictKeys(Last.pre.faces)
    /\ VerticesUpdated(Last.pre, DictGet(Last.pre.faces, Last.a))
    /\ FacesConsistent

\* C28 as stated: after square_move(face_id, r) on a face for which
\* is_square_move_valid(face_id, r) held, _faces has the faces it had,
\* _inner_vertices has gained the vertices created by expansion and lost the
\* contracted ones, every half hourglass attached to a vertex of the graph
\* is on the cycle of its right face, which is stored, and no stored face
\* has a removed half hourglass as its head.
SquareMoveRepairsFaces == ValidSquareMove => SquareMoveDone

\* The same in an r-valent graph, on a face with inner vertices only; it
\* fails on a face of two half hourglasses, which is_square_move_valid
\* accepts.
SquareMoveRepairsFacesAssumed ==
    (ValidSquareMove /\ Assumed(Last.pre, Last.a, Last.b)) => SquareMoveDone

\* The same in an r-valent graph, on a face of four half hourglasses with
\* inner vertices only.
SquareMoveRepairsSquares ==
    ( /\ ValidSquareMove
      /\ Assumed(Last.pre, Last.a, Last.b)
      /\ Len(iterate_face(Last.pre, DictGet(Last.pre.faces, Last.a))) = 4 )
    => SquareMoveDone

-----------------------------------------------------------------------------
(* Properties of the rotation list of a vertex (specification Spec).        *)

\* The rotation list of v: the half hourglasses linked from
\* _half_hourglasses_head.
RotationList(g, v) == iterate_vertex(g, v)

\* The list from head is one circle: it comes back to head in both
\* directions and cw_next, ccw_next are inverse on it.
OneCircle(g, head) ==
    /\ Closes(g.hh_ccw_next, head, head, Len(g.hh_twin))
    /\ Closes(g.hh_cw_next, head, head, Len(g.hh_twin))
    /\ \A hh \in Range(iterate_hh_counterclockwise(g, head)) :
           /\ g.hh_cw_next[g.hh_ccw_next[hh]] = hh
           /\ g.hh_ccw_next[g.hh_cw_next[hh]] = hh

OwnsItsList(g, v) ==
    \A hh \in Range(RotationList(g, v)) : g.hh_v_from[hh] = v

TwinsListed(g, v) ==
    \A hh \in Range(RotationList(g, v)) :
        g.hh_twin[hh] \in Range(RotationList(g, g.hh_v_to[hh]))

DegreesCount(g, v) ==
    /\ simple_degree(g, v) = Len(RotationList(g, v))
    /\ total_degree(g, v) = SumMult(g, RotationList(g, v), 1)

RotationListOk(g, v) ==
    \/ /\ g.v_half_hourglasses_head[v] = None
       /\ simple_degree(g, v) = 0
    \/ /\ g.v_half_hourglasses_head[v] # None
       /\ OneCircle(g, g.v_half_hourglasses_head[v])
       /\ OwnsItsList(g, v)
       /\ TwinsListed(g, v)
       /\ DegreesCount(g, v)

\* C29 as stated: in every state reached by create_hourglass_between,
\* remove_hourglass_between, clear_hourglasses, reparent,
\* square_move_contract and square_move_expand, the rotation list of every
\* vertex is empty, with simple_degree() 0, or one circular list through
\* _half_hourglasses_head whose half hourglasses have v_from() the vertex
\* and their twin in the rotation list of their v_to(), simple_degree()
\* being their number and total_degree() the sum of their multiplicities.
RotationListsConsistent ==
    raised = "" => \A v \in Vertices(Heap) : RotationListOk(Heap, v)

\* What square_move_contract(out_hh) leaves of the contracted vertex: the
\* single half hourglass out_hh, whose twin is no longer in the rotation
\* list of the vertex contracted into.
ContractedLeft(g, v, out_hh) ==
    /\ RotationList(g, v) = <<out_hh>>
    /\ g.hh_v_from[out_hh] = v
    /\ g.hh_twin[out_hh] \notin Range(RotationList(g, g.hh_v_to[out_hh]))

\* The vertices that had a consistent rotation list when the last call
\* was made, and the vertices the call created.
WasConsistent(v) == v \in Vertices(Last.pre) => RotationListOk(Last.pre, v)

\* C29 amended: each call that returns or raises leaves a consistent
\* rotation list (empty with simple_degree() 0, or one circle through the
\* head whose half hourglasses have v_from() the vertex and their twin in
\* the list of their v_to(), counted by simple_degree() and
\* total_degree()) to every vertex that had one and to every vertex it
\* creates, except the vertex contracted by square_move_contract(out_hh):
\* when out_hh leads to another vertex, it is left with out_hh alone, whose
\* twin has left the list of its v_to().
RotationListsPreserved ==
    (Len(hist) > 0 /\ raised # "Hang") =>
        \A v \in Vertices(Heap) :
            WasConsistent(v) =>
                IF Last.op = "square_move_contract" /\ v = Last.a
                THEN Last.pre.hh_v_to[Last.b] # v => ContractedLeft(Heap, v, Last.b)
                ELSE RotationListOk(Heap, v)

\* The case of C29: a vertex contracted after another call, next to a
\* vertex that keeps two half hourglasses or more.
RotationListsPreservedWitness ==
    /\ Len(hist) = 2
    /\ hist[1].op \in {"clear_hourglasses", "reparent", "create_hourglass_between",
                       "remove_hourglass_between", "square_move_expand"}
    /\ Last.op = "square_move_contract"
    /\ raised = ""
    /\ \E v \in Vertices(Heap) \ {Last.a} :
           simple_degree(Heap, v) >= 2 /\ RotationListOk(Heap, v)

-----------------------------------------------------------------------------
(* Specification SpecHH: the HalfHourglass level.  As in                    *)
(* tests.py:half_hourglass_tests, HalfHourglass objects are constructed     *)
(* directly between two vertices and linked with insert_cw_next,            *)
(* insert_ccw_next and remove; no vertex holds them.                        *)

\* The objects constructed and the lists built before the calls that are
\* explored.  The k-th HalfHourglass constructed is object 2k - 1 and its
\* twin is object 2k.  The second entry is the list of tests.py:129-136.
HHSetups ==
    << << << "HalfHourglass", << 1, 3, 2 >> >>, << "HalfHourglass", << 1, 3, 0 >> >>,
          << "HalfHourglass", << 1, 3, 3 >> >>, << "HalfHourglass", << 1, 3, 1 >> >> >>,
       << << "HalfHourglass", << 1, 3, 2 >> >>, << "HalfHourglass", << 1, 3, 0 >> >>,
          << "HalfHourglass", << 1, 3, 3 >> >>, << "HalfHourglass", << 1, 3, 1 >> >>,
          << "insert_cw_next", << 1, 3 >> >>, << "insert_cw_next", << 3, 5 >> >>,
          << "insert_ccw_next", << 1, 7 >> >> >>,
       << << "HalfHourglass", << 1, 3, 0 >> >>, << "HalfHourglass", << 1, 3, 0 >> >>,
          << "HalfHourglass", << 1, 3, 1 >> >>,
          << "insert_cw_next", << 1, 3 >> >> >>,
       << << "HalfHourglass", << 1, 3, 1 >> >>, << "HalfHourglass", << 1, 3, 2 >> >>,
          << "HalfHourglass", << 1, 3, 0 >> >>,
          << "insert_ccw_next", << 1, 3 >> >>, << "insert_ccw_next", << 3, 5 >> >>,
          << "insert_cw_next", << 2, 6 >> >> >> >>

InitHH ==
    /\ \E k \in 1..Len(HHSetups) :
           StateIs(Build(MakeVertices(EmptyHeap, KernelVertices, 1), HHSetups[k], 1))
    /\ hist = << >>
    /\ ops = 0

\* self.insert_cw_next(element), element being a list of its own (a new or
\* a removed half hourglass)
InsertCwNext ==
    \E self \in HalfHourglasses, element \in HalfHourglasses :
        /\ CanCall
        /\ self # element
        /\ hh_cw_next[element] = element
        /\ Becomes(Call("insert_cw_next", Heap, << self, element >>))
        /\ Record(Invocation("insert_cw_next", self, element, 0))

\* self.insert_ccw_next(element), element being a list of its own
InsertCcwNext ==
    \E self \in HalfHourglasses, element \in HalfHourglasses :
        /\ CanCall
        /\ self # element
        /\ hh_cw_next[element] = element
        /\ Becomes(Call("insert_ccw_next", Heap, << self, element >>))
        /\ Record(Invocation("insert_ccw_next", self, element, 0))

\* self.remove()
RemoveHH ==
    \E self \in HalfHourglasses :
        /\ CanCall
        /\ Becomes(Call("remove", Heap, << self >>))
        /\ Record(Invocation("remove", self, 0, 0))

\* hh.thicken() on a half hourglass that no vertex holds
ThickenHH ==
    \E hh \in HalfHourglasses :
        /\ CanCall
        /\ hh_multiplicity[hh] < MaxMult
        /\ Len(hs_twin) < 2 * MaxStrandPairs
        /\ Becomes(Call("thicken", Heap, << hh >>))
        /\ Record(Invocation("thicken", hh, 0, 0))

\* hh.thin() on a half hourglass that no vertex holds
ThinHH ==
    \E hh \in HalfHourglasses :
        /\ CanCall
        /\ Becomes(Call("thin", Heap, << hh >>))
        /\ Record(Invocation("thin", hh, 0, 0))

NextHH ==
    \/ InsertCwNext
    \/ InsertCcwNext
    \/ RemoveHH
    \/ ThickenHH
    \/ ThinHH

SpecHH == InitHH /\ [][NextHH]_vars

\* The strands of hh: multiplicity() strands, clockwise from
\* _half_strands_head.
StrandRun(g, hh) ==
    [i \in 1..g.hh_multiplicity[hh] |->
         get_ith_element(g.hs_cw_next, g.hh_half_strands_head[hh], i - 1)]

\* The runs of the hourglasses hhs, one after the other.
RECURSIVE StrandRuns(_, _, _)
StrandRuns(g, hhs, i) ==
    IF i > Len(hhs) THEN << >>
    ELSE StrandRun(g, hhs[i]) \o StrandRuns(g, hhs, i + 1)

\* The strands of the rotation list of hh are one circle made of the runs
\* of its hourglasses, in their clockwise order.
StrandsSplicedFrom(g, hh) ==
    LET hhs == iterate_hh_clockwise(g, hh)
        runs == StrandRuns(g, hhs, 1)
        m == g.hh_multiplicity[hh]
    IN  /\ (g.hh_half_strands_head[hh] = None) = (m = 0)
        /\ (g.hh_half_strands_tail[hh] = None) = (m = 0)
        /\ m > 0 =>
               /\ Iterate(g.hs_cw_next, g.hh_half_strands_head[hh]) = runs
               /\ g.hs_cw_next[runs[Len(runs)]] = runs[1]
               /\ Len(runs) = SumMult(g, hhs, 1)
               /\ runs[m] = g.hh_half_strands_tail[hh]
               /\ \A i \in 1..m : g.hs_hourglass[runs[i]] = hh
               /\ \A i \in 1..Len(runs) :
                      g.hs_ccw_next[g.hs_cw_next[runs[i]]] = runs[i]

\* C30: after calls of insert_cw_next, insert_ccw_next, remove, thicken and
\* thin on half hourglasses, phantom ones included, the strands of the
\* hourglasses of one rotation list form one circular list, as long as the
\* sum of their multiplicities, made of the run of each hourglass from its
\* _half_strands_head to its _half_strands_tail, the runs in the clockwise
\* order of the hourglasses; the strands of a removed hourglass form a
\* circle of their own of length multiplicity().
StrandsSpliced ==
    /\ \A hh \in HalfHourglasses : StrandsSplicedFrom(Heap, hh)
    /\ (LastIs("remove") /\ hh_multiplicity[Last.a] > 0) =>
           /\ hh_cw_next[Last.a] = Last.a
           /\ Len(Iterate(hs_cw_next, hh_half_strands_head[Last.a]))
                  = hh_multiplicity[Last.a]

\* An insert_ccw_next of an hourglass with strands, then the removal of an
\* hourglass with several strands from a list that keeps a phantom
\* hourglass and two hourglasses with strands.
StrandsSplicedWitness ==
    /\ Len(hist) = 2
    /\ hist[1].op = "insert_ccw_next"
    /\ hh_multiplicity[hist[1].b] >= 1
    /\ LastIs("remove")
    /\ hh_multiplicity[Last.a] >= 2
    /\ LET rest == Range(iterate_hh_clockwise(Heap, Last.pre.hh_cw_next[Last.a]))
       IN  /\ Last.a \notin rest
           /\ \E p \in rest : hh_multiplicity[p] = 0
           /\ \E h1, h2 \in rest : /\ h1 # h2
                                   /\ hh_multiplicity[h1] >= 1
                                   /\ hh_multiplicity[h2] >= 1

-----------------------------------------------------------------------------
(* Properties of HalfStrand.get_trip on isolated trips (specification       *)
(* SpecSq).                                                                 *)

\* The half strand s leaves an inner vertex and its trip i does not reach
\* the boundary.
StartsIsolatedTrip(g, s, i) ==
    /\ ~ g.v_boundary[StrandFrom(g, s)]
    /\ ~ ReachesBoundary(g, s, i)

\* C31: when s leaves an inner vertex and its trip i never reaches the
\* boundary, s.get_trip(i) stops when a strand comes up again and returns
\* the strands of that cycle, each once, starting with s: each strand is
\* the i-th trip turn of the one before and s that of the last, the first
\* does not leave a boundary vertex and none enters one.
IsolatedTripIsCycle ==
    \A s \in GraphStrands(Heap), i \in TripIndices :
        StartsIsolatedTrip(Heap, s, i) =>
            LET trip == get_trip(Heap, s, i)
            IN  /\ Len(trip) >= 1
                /\ trip[1] = s
                /\ Cardinality(Range(trip)) = Len(trip)
                /\ Len(trip) = TripPeriod(Heap, s, s, i, Len(hs_twin))
                /\ \A k \in 2..Len(trip) :
                       trip[k] = get_ith_trip_turn(Heap, trip[k - 1], i)
                /\ get_ith_trip_turn(Heap, trip[Len(trip)], i) = s
                /\ ~ v_boundary[StrandFrom(Heap, trip[1])]
                /\ \A k \in 1..Len(trip) : ~ v_boundary[StrandTo(Heap, trip[k])]

\* After a move, a strand that leaves an inner vertex lies on an isolated
\* trip of four strands or more.
IsolatedTripIsCycleWitness ==
    /\ Len(hist) > 0 /\ Last.exc = ""
    /\ \E s \in GraphStrands(Heap), i \in TripIndices :
           /\ StartsIsolatedTrip(Heap, s, i)
           /\ Len(get_trip(Heap, s, i)) >= 4

-----------------------------------------------------------------------------
(* Termination of the traversals (specification SpecSq).  The loops of the  *)
(* program are cut in the model after as many turns as there are objects;   *)
(* a loop terminates when it ends before the cut.                           *)

\* s.get_trip(i) ends: from a strand that leaves a boundary vertex the
\* forward loop meets a strand that enters one; from another strand the
\* forward loop ends at a strand met before or at the boundary, and then
\* the backward loop meets a strand that leaves a boundary vertex.
GetTripEnds(g, s, i) ==
    LET trip == get_trip(g, s, i)
    IN  /\ Len(trip) >= 1
        /\ Len(trip) <= Len(g.hs_twin)
        /\ g.v_boundary[StrandFrom(g, s)] => g.v_boundary[StrandTo(g, trip[Len(trip)])]
        /\ (~ g.v_boundary[StrandFrom(g, s)] /\ ReachesBoundary(g, s, i)) =>
               /\ g.v_boundary[StrandFrom(g, trip[1])]
               /\ g.v_boundary[StrandTo(g, trip[Len(trip)])]
        /\ (~ g.v_boundary[StrandFrom(g, s)] /\ ~ ReachesBoundary(g, s, i)) =>
               get_ith_trip_turn(g, trip[Len(trip)], i) \in Range(trip)

\* The iteration by right turns from h comes back to h.
RightTurnsEnd(g, h) == Closes(hh_right_turn(g), h, h, Len(g.hh_twin))

\* The loop of traverse() handles each half hourglass once.
TraverseEnds(g) ==
    LET t == traverse(g)
    IN  /\ Cardinality(Range(t.hh_visited)) = Len(t.hh_visited)
        /\ Len(t.hh_history) <= 1 + 2 * Len(g.hh_twin)

\* C32: on the graphs built, get_trip(i) ends for every start strand
\* (those on the boundary, where no visited set is kept, and the backward
\* walk of the others included) and every i in 1..4, the iteration of a
\* face by right turns ends from every half hourglass, and so do
\* traverse() and is_fully_reduced(r), whose unbounded loops are those of
\* get_trip on the strands of the inner hourglasses and from the boundary
\* vertices.
TraversalsTerminate ==
    /\ \A s \in GraphStrands(Heap), i \in TripIndices : GetTripEnds(Heap, s, i)
    /\ \A h \in GraphHalfHourglasses(Heap) : RightTurnsEnd(Heap, h)
    /\ TraverseEnds(Heap)
    /\ \A v \in Range(DictValues(boundary_vertices)), i \in TripIndices :
           LET trip == Vertex_get_trip(Heap, v, i)
           IN  trip.exc = "" =>
                   /\ StrandFrom(Heap, trip.val[1]) = v
                   /\ v_boundary[StrandTo(Heap, trip.val[Len(trip.val)])]

\* After a move: a trip of four strands or more from the boundary, one
\* found from a strand in its middle, and a face of four half hourglasses
\* or more.
TraversalsTerminateWitness ==
    /\ Len(hist) > 0 /\ Last.exc = ""
    /\ \E s \in GraphStrands(Heap), i \in TripIndices :
           /\ v_boundary[StrandFrom(Heap, s)]
           /\ Len(get_trip(Heap, s, i)) >= 4
           /\ get_trip(Heap, get_trip(Heap, s, i)[2], i) = get_trip(Heap, s, i)
    /\ \E h \in GraphHalfHourglasses(Heap) : Len(iterate_right_turns(Heap, h)) >= 4
    /\ traverse(Heap).exc = ""

-----------------------------------------------------------------------------
(* The angular order of the rotation lists (specification Spec).            *)

\* Iterating v (counterclockwise from the head) yields half hourglasses of
\* non-decreasing get_angle(), the head having a minimum angle.
AngleOrdered(g, v) ==
    LET hhs == iterate_vertex(g, v)
    IN  /\ \A k \in 1..(Len(hhs) - 1) : ~ get_angle_less(g, hhs[k + 1], hhs[k])
        /\ \A k \in 1..Len(hhs) : ~ get_angle_less(g, hhs[k], hhs[1])

AllAngleOrdered(g) == \A v \in Vertices(g) : AngleOrdered(g, v)

\* C33: the vertices of the initial states, whose hourglasses were created
\* by create_hourglass_between, are iterated in non-decreasing get_angle()
\* order from a head of minimum angle, and create_hourglass_between,
\* remove_hourglass_between and reparent, which move no vertex, keep it so.
RotationListsAngleOrdered ==
    /\ Len(hist) = 0 => AllAngleOrdered(Heap)
    /\ ( /\ Len(hist) > 0
         /\ Last.op \in {"create_hourglass_between", "remove_hourglass_between",
                         "reparent"}
         /\ AllAngleOrdered(Last.pre) )
       => AllAngleOrdered(Heap)

\* A reparent has moved a half hourglass to a vertex that now holds three
\* half hourglasses or more, not all of the same angle.
RotationListsAngleOrderedWitness ==
    /\ LastIs("reparent")
    /\ AllAngleOrdered(Last.pre)
    /\ hh_v_from[Last.a] = Last.b
    /\ Last.pre.hh_v_from[Last.a] # Last.b
    /\ Len(iterate_vertex(Heap, Last.b)) >= 3
    /\ \E h1, h2 \in Range(iterate_vertex(Heap, Last.b)) : get_angle_less(Heap, h1, h2)

-----------------------------------------------------------------------------
(* Properties of HalfHourglass.reparent (specification Spec).               *)

\* What hh.reparent(v), called in the state pre, has left.
Reparented(pre, g, hh, v) ==
    LET old == pre.hh_v_from[hh]
    IN  /\ g.hh_v_from[hh] = v
        /\ g.hh_v_to[g.hh_twin[hh]] = v
        /\ hh \in Range(iterate_vertex(g, v))
        /\ hh \notin Range(iterate_vertex(g, old))
        /\ g.hh_twin[hh] \in Range(iterate_vertex(g, g.hh_v_to[hh]))
        /\ simple_degree(g, old) = simple_degree(pre, old) - 1
        /\ simple_degree(g, v) = simple_degree(pre, v) + 1
        /\ g.hh_multiplicity[hh] = pre.hh_multiplicity[hh]
        /\ iterate_strands(g, hh) = iterate_strands(pre, hh)
        /\ g.hh_twin[hh] = pre.hh_twin[hh]
        /\ g.hh_v_to[hh] = pre.hh_v_to[hh]

\* C34 as stated: after hh.reparent(v), hh.v_from() and hh.twin().v_to()
\* are v, hh is in the rotation list of v and not in that of its old
\* origin, hh.twin() is in the rotation list of hh.v_to(), simple_degree()
\* of the old origin has dropped by 1 and that of v risen by 1, and the
\* multiplicity, the strands and the twin of hh are unchanged.
ReparentMoves ==
    LastIs("reparent") => Reparented(Last.pre, Heap, Last.a, Last.b)

\* What hh.reparent(hh.v_from()), called in the state pre, has left.
ReparentedInPlace(pre, g, hh, v) ==
    /\ g.hh_v_from[hh] = v
    /\ g.hh_v_to[g.hh_twin[hh]] = v
    /\ hh \in Range(iterate_vertex(g, v))
    /\ g.hh_twin[hh] \in Range(iterate_vertex(g, g.hh_v_to[hh]))
    /\ simple_degree(g, v) = simple_degree(pre, v)
    /\ g.hh_multiplicity[hh] = pre.hh_multiplicity[hh]
    /\ iterate_strands(g, hh) = iterate_strands(pre, hh)
    /\ g.hh_twin[hh] = pre.hh_twin[hh]
    /\ g.hh_v_to[hh] = pre.hh_v_to[hh]

\* C34 amended: when the rotation lists of v and of the origin of hh are
\* consistent, hh.reparent(v) with v another vertex than that origin leaves
\* what C34 states; with v the origin of hh it leaves hh in the rotation
\* list of v and simple_degree() of v as it was, with hh.v_from() and
\* hh.twin().v_to() equal to v, hh.twin() in the rotation list of
\* hh.v_to(), and the multiplicity, the strands and the twin unchanged.
ReparentMovesBetweenConsistent ==
    (/\ LastIs("reparent")
     /\ RotationListOk(Last.pre, Last.b)
     /\ RotationListOk(Last.pre, Last.pre.hh_v_from[Last.a]))
    => IF Last.pre.hh_v_from[Last.a] # Last.b
       THEN Reparented(Last.pre, Heap, Last.a, Last.b)
       ELSE ReparentedInPlace(Last.pre, Heap, Last.a, Last.b)

\* An hourglass has been moved from a consistent rotation list to that of
\* another vertex, which held two hourglasses or more.
ReparentMovesWitness ==
    /\ LastIs("reparent")
    /\ Last.exc = ""
    /\ RotationListOk(Last.pre, Last.b)
    /\ RotationListOk(Last.pre, Last.pre.hh_v_from[Last.a])
    /\ Last.pre.hh_v_from[Last.a] # Last.b
    /\ simple_degree(Last.pre, Last.b) >= 2
    /\ simple_degree(Heap, Last.b) = simple_degree(Last.pre, Last.b) + 1

-----------------------------------------------------------------------------
(* Specification SpecRT: square_move_contract followed by                   *)
(* square_move_expand on free vertices, as in tests.py:vertex_tests.        *)

\* The vertices of the square move test of tests.py (v5, v6 and the four
\* extras), and a vertex with three neighbours that does not lie between
\* them.
RoundTripVertices ==
    << << [id |-> 5, x |-> 0, y |-> 0, filled |-> FALSE],
          [id |-> 6, x |-> 1, y |-> 0, filled |-> TRUE],
          [id |-> 7, x |-> -1, y |-> 1, filled |-> TRUE],
          [id |-> 8, x |-> -1, y |-> -1, filled |-> TRUE],
          [id |-> 9, x |-> 2, y |-> 1, filled |-> TRUE],
          [id |-> 10, x |-> 2, y |-> -1, filled |-> TRUE] >>,
       << [id |-> 1, x |-> 3, y |-> -3, filled |-> FALSE],
          [id |-> 2, x |-> 0, y |-> 3, filled |-> TRUE],
          [id |-> 3, x |-> 0, y |-> 0, filled |-> TRUE],
          [id |-> 4, x |-> -2, y |-> 1, filled |-> TRUE] >> >>

\* Their hourglasses: mid_hh, hh1, hh2, hh3, hh4 of the test.
RoundTripHourglasses ==
    << << <<1, 2, 2>>, <<1, 3, 1>>, <<1, 4, 1>>, <<2, 5, 1>>, <<2, 6, 1>> >>,
       << <<1, 2, 2>>, <<1, 3, 1>>, <<1, 4, 1>> >> >>

InitRT ==
    /\ \E k \in 1..Len(RoundTripVertices) :
           StateIs(MakeHourglasses(MakeVertices(EmptyHeap, RoundTripVertices[k], 1),
                                   RoundTripHourglasses[k], 1))
    /\ hist = << >>
    /\ ops = 0

\* v.square_move_expand(hh1, hh2) on two half hourglasses of v
ExpandVertex ==
    \E hh1 \in Attached(Heap), hh2 \in Attached(Heap) :
        /\ CanCall
        /\ hh1 # hh2
        /\ hh_v_from[hh1] = hh_v_from[hh2]
        /\ Becomes(Call("square_move_expand", Heap, <<hh_v_from[hh1], hh1, hh2>>))
        /\ Record(Invocation("square_move_expand", hh_v_from[hh1], hh1, hh2))

NextRT ==
    \/ SquareMoveContract
    \/ ExpandVertex

SpecRT == InitRT /\ [][NextRT]_vars

\* Vertex.get_neighbors
get_neighbors(g, v) ==
    LET hhs == iterate_vertex(g, v)
    IN  [i \in 1..Len(hhs) |-> g.hh_v_to[hhs[i]]]

\* The list ns with the vertex a named b.
Renamed(ns, a, b) == [i \in 1..Len(ns) |-> IF ns[i] = a THEN b ELSE ns[i]]

\* The last two calls were v.square_move_contract(out_hh), v holding
\* out_hh and two more half hourglasses in consistent rotation lists, and
\* square_move_expand on out_hh.v_to() with those two.
ContractedThenExpanded ==
    /\ Len(hist) = 2
    /\ hist[1].op = "square_move_contract" /\ hist[1].exc = ""
    /\ hist[2].op = "square_move_expand" /\ hist[2].exc = ""
    /\ hist[2].a = hist[1].pre.hh_v_to[hist[1].b]
    /\ hist[2].a # hist[1].a
    /\ Len(iterate_vertex(hist[1].pre, hist[1].a)) = 3
    /\ Range(iterate_vertex(hist[1].pre, hist[1].a)) = {hist[1].b, hist[2].b, hist[2].c}
    /\ \A w \in Vertices(hist[1].pre) : RotationListOk(hist[1].pre, w)

\* What the contraction and the expansion have done apart from the order
\* of the rotation lists.
RoundTripSurgery(pre, mid, g, v, out_hh, he1, he2) ==
    LET sur_v == pre.hh_v_to[out_hh]
        new_v == Len(g.v_id)
    IN  /\ mid.hh_v_from[he1] = sur_v
        /\ mid.hh_v_from[he2] = sur_v
        /\ mid.hh_twin[out_hh] \notin Range(iterate_vertex(mid, sur_v))
        /\ new_v = Len(mid.v_id) + 1
        /\ g.v_filled[new_v] # g.v_filled[sur_v]
        /\ Len(iterate_vertex(g, new_v)) = 3
        /\ \E conn \in Range(iterate_vertex(g, new_v)) :
               /\ Range(iterate_vertex(g, new_v)) = {he1, he2, conn}
               /\ g.hh_v_to[conn] = sur_v
               /\ g.hh_multiplicity[conn]
                      = g.hh_multiplicity[he1] + g.hh_multiplicity[he2]
        /\ total_degree(g, sur_v) = total_degree(mid, sur_v)

\* The neighbour lists of the created vertex and of the survivor are those
\* of the contracted vertex and of the survivor before the contraction.
RoundTripNeighbours(pre, g, v, out_hh) ==
    LET sur_v == pre.hh_v_to[out_hh]
        new_v == Len(g.v_id)
    IN  /\ Renamed(get_neighbors(g, new_v), new_v, v) = get_neighbors(pre, v)
        /\ Renamed(get_neighbors(g, sur_v), new_v, v) = get_neighbors(pre, sur_v)

\* C35: v.square_move_contract(out_hh) moves the other hourglasses of v to
\* out_hh.v_to() and removes the connecting hourglass from that survivor;
\* square_move_expand(he1, he2) on the survivor then creates a vertex of
\* opposite fill holding he1, he2 and a connecting hourglass of
\* multiplicity mult(he1) + mult(he2), the neighbour lists of both
\* vertices are those before the contraction, and total_degree() of the
\* survivor is unchanged by the expansion.
ContractExpandRoundTrip ==
    ContractedThenExpanded
    => /\ RoundTripSurgery(hist[1].pre, hist[2].pre, Heap,
                           hist[1].a, hist[1].b, hist[2].b, hist[2].c)
       /\ RoundTripNeighbours(hist[1].pre, Heap, hist[1].a, hist[1].b)

\* The part of C35 that does not depend on where the vertices lie.
ContractExpandSurgery ==
    ContractedThenExpanded
    => RoundTripSurgery(hist[1].pre, hist[2].pre, Heap,
                        hist[1].a, hist[1].b, hist[2].b, hist[2].c)

\* The created vertex lies where the contracted vertex lay.
CreatedInPlace(pre, g, v) ==
    LET new_v == Len(g.v_id)
    IN  /\ g.v_x[new_v] * pre.v_den[v] = pre.v_x[v] * g.v_den[new_v]
        /\ g.v_y[new_v] * pre.v_den[v] = pre.v_y[v] * g.v_den[new_v]

\* When the created vertex lies where the contracted vertex lay, as in
\* tests.py, the neighbour lists are those before the contraction.
ContractExpandInPlace ==
    (ContractedThenExpanded /\ CreatedInPlace(hist[1].pre, Heap, hist[1].a))
    => RoundTripNeighbours(hist[1].pre, Heap, hist[1].a, hist[1].b)

-----------------------------------------------------------------------------
(* Properties of create_vertex with verify_id (specification SpecG).        *)

\* The ids that are keys of both vertex maps.
IdsInBothMaps(g) == {id \in Range(DictKeys(g.inner_vertices)) :
                        DictHas(g.boundary_vertices, id)}

\* C36: create_vertex(v_id, ..., verify_id=True) with v_id in use by a
\* vertex of the graph, inner or boundary, raises ValueError and leaves
\* both vertex maps unchanged, so that no id is in both _inner_vertices
\* and _boundary_vertices.
VerifyIdRejectsIdsInUse ==
    (/\ LastIs("create_vertex")
     /\ Last.c = TRUE
     /\ get_vertex(Last.pre, Last.a) # None)
    => /\ Last.exc = "ValueError"
       /\ inner_vertices = Last.pre.inner_vertices
       /\ boundary_vertices = Last.pre.boundary_vertices
       /\ IdsInBothMaps(Heap) = IdsInBothMaps(Last.pre)

\* What create_vertex with verify_id does for an inner vertex: an id in
\* use by an inner vertex is rejected with the maps unchanged.
VerifyIdRejectsInnerIds ==
    (/\ LastIs("create_vertex")
     /\ Last.c = TRUE
     /\ DictHas(Last.pre.inner_vertices, Last.a))
    => /\ Last.exc = "ValueError"
       /\ inner_vertices = Last.pre.inner_vertices
       /\ boundary_vertices = Last.pre.boundary_vertices

-----------------------------------------------------------------------------
(* The benzene move as a cycle (specification SpecSq).                      *)

\* The half hourglasses of the face f: those met by iterating f and their
\* twins, which have f on their left.
HalfHourglassesOfFace(g, f) ==
    Range(iterate_face(g, f)) \cup {g.hh_twin[hh] : hh \in Range(iterate_face(g, f))}

\* On the face f of g, where is_benzene_move_valid() holds, cycle(h) is
\* valid and leaves the multiplicities benzene_move() leaves.
BenzeneAsCycle(g, f, h) ==
    /\ is_cycle_valid(g, f, h, FALSE) = [exc |-> "", val |-> TRUE]
    /\ LET b == benzene_move(g, f)
           c == cycle(g, f, h, FALSE)
       IN  /\ b.raised = "" /\ c.raised = ""
           /\ \A hh \in HalfHourglassesOfFace(g, f) :
                  /\ b.hh_multiplicity[hh] = c.hh_multiplicity[hh]
                  /\ strand_count(b, hh) = strand_count(c, hh)

\* C37: on every face where is_benzene_move_valid() holds, for every half
\* hourglass h of the face with multiplicity 2, is_cycle_valid(h) holds and
\* benzene_move() and cycle(h) give the same multiplicity to every
\* hourglass of the face.
BenzeneMoveIsCycle ==
    \A k \in 1..Len(faces) :
        is_benzene_move_valid(Heap, faces[k].v)
        => \A h \in HalfHourglassesOfFace(Heap, faces[k].v) :
               hh_multiplicity[h] = 2 => BenzeneAsCycle(Heap, faces[k].v, h)

\* A face of four hourglasses or more on which is_benzene_move_valid() holds and
\* whose head has one strand, so that benzene_move() starts by thickening
\* while cycle(h) starts by thinning h.
BenzeneMoveIsCycleWitness ==
    \E k \in 1..Len(faces) :
        /\ is_benzene_move_valid(Heap, faces[k].v)
        /\ Len(iterate_face(Heap, faces[k].v)) >= 4
        /\ hh_multiplicity[f_half_hourglasses_head[faces[k].v]] = 1
        /\ \E h \in HalfHourglassesOfFace(Heap, faces[k].v) :
               /\ hh_multiplicity[h] = 2
               /\ hh_left_face[h] = faces[k].v
               /\ cycle(Heap, faces[k].v, h, FALSE).hh_multiplicity # hh_multiplicity

-----------------------------------------------------------------------------
(* The SL4 variants of the square move (specification SpecSq).              *)

\* is_square_move4_valid() and is_square_move_valid(4) return the same
\* Boolean on the face f.
SameValidity(g, f) == is_square_move4_valid(g, f) <=> is_square_move_valid(g, f, 4)

\* square_move4() and square_move(4) on the face f return the same lists
\* and leave the same graph.
SameMove(g, f) == square_move4(g, f) = Face_square_move(g, f, 4)

\* C38: on every face is_square_move4_valid() returns what
\* is_square_move_valid(4) returns, and where both hold square_move4()
\* returns the lists and leaves the graph of square_move(4).
SquareMove4Agrees ==
    \A k \in 1..Len(faces) :
        /\ SameValidity(Heap, faces[k].v)
        /\ (is_square_move4_valid(Heap, faces[k].v)
            /\ is_square_move_valid(Heap, faces[k].v, 4))
           => SameMove(Heap, faces[k].v)

\* The second half of C38 alone.
SquareMove4SameMove ==
    \A k \in 1..Len(faces) :
        (is_square_move4_valid(Heap, faces[k].v)
         /\ is_square_move_valid(Heap, faces[k].v, 4))
        => SameMove(Heap, faces[k].v)

\* The first half of C38 on the faces of four half hourglasses that all
\* have strands.
SquareMove4SameValidityOnSquares ==
    \A k \in 1..Len(faces) :
        (/\ Len(iterate_face(Heap, faces[k].v)) = 4
         /\ \A hh \in Range(iterate_face(Heap, faces[k].v)) : hh_multiplicity[hh] >= 1)
        => SameValidity(Heap, faces[k].v)

-----------------------------------------------------------------------------
(* Isomorphism of a graph with itself (specification SpecG).                *)

\* g.is_isomorphic(g), g == g and hash(g) return, the first two True.
IsomorphicToItself(g) ==
    /\ is_isomorphic(g, g) = [exc |-> "", val |-> TRUE]
    /\ HPG_eq(g, g) = [exc |-> "", val |-> TRUE]
    /\ HPG_hash(g).exc = ""

\* C39: for every graph g built by the public operations, the empty graph
\* and the graphs with no or one boundary vertex included,
\* g.is_isomorphic(g), g == g and hash(g) return without raising, and
\* g.is_isomorphic(g) returns True.
IsomorphismTotalAndReflexive == IsomorphicToItself(Heap)

\* The same for the graphs that have two boundary vertices or more and an
\* hourglass from boundary vertex 0 to boundary vertex n - 1.
IsomorphismReflexiveWhenTraversable ==
    (/\ Len(boundary_vertices) >= 2
     /\ DictHas(boundary_vertices, 0)
     /\ DictHas(boundary_vertices, Len(boundary_vertices) - 1)
     /\ get_hourglass_to(Heap, get_vertex(Heap, 0),
                         get_vertex(Heap, Len(boundary_vertices) - 1)) # None)
    => IsomorphicToItself(Heap)

-----------------------------------------------------------------------------
(* Properties of HalfStrand.get_last_strand_same_hourglass (specification   *)
(* Spec).                                                                   *)

\* The strands of the half hourglasses that are in a rotation list.
AttachedStrands(g) == UNION {Range(iterate_strands(g, hh)) : hh \in Attached(g)}

\* The circle of the strand s has a strand of another hourglass.
SharesCircle(g, s) ==
    \E t \in Range(Iterate(g.hs_cw_next, s)) : g.hs_hourglass[t] # g.hs_hourglass[s]

\* C40: for every strand s of a strand circle,
\* s.get_last_strand_same_hourglass() is s.hourglass()._half_strands_tail,
\* for the head, a middle and the tail strand of the hourglass, with or
\* without strands of other hourglasses in the circle.
LastStrandIsTail ==
    \A s \in AttachedStrands(Heap) :
        get_last_strand_same_hourglass(Heap, s) = hh_half_strands_tail[hs_hourglass[s]]

\* The same for the strands that are the head of their hourglass or share
\* their circle with another hourglass.
LastStrandIsTailWhenShared ==
    \A s \in AttachedStrands(Heap) :
        (s = hh_half_strands_head[hs_hourglass[s]] \/ SharesCircle(Heap, s))
        => get_last_strand_same_hourglass(Heap, s)
               = hh_half_strands_tail[hs_hourglass[s]]

=============================================================================
